---------------------------- MODULE Spec2Model ----------------------------
(***************************************************************************)
(* Model of the tool-calling loop of nodepragagent: SearchAgent            *)
(* (src/src/nodepragagent/vllm.py), the tool registry and argument models  *)
(* (src/src/nodepragagent/tools.py), the turn serialisation                *)
(* (src/src/nodepragagent/memory.py) and the error payload                 *)
(* (src/src/nodepragagent/errors.py).                                      *)
(*                                                                         *)
(* Python values are modelled as follows.  A str is a TLA+ string.  None   *)
(* is the distinguished string None, which no drawn text equals.  A parsed *)
(* JSON value is a record tagged by its Python type in field t.  A tool    *)
(* response (the object a callback or the error branch produces) is a      *)
(* record tagged by its class in field cls; what is stored in the history  *)
(* is its serialisation, a real string built as json.dumps or              *)
(* model_dump_json build it.                                               *)
(***************************************************************************)
EXTENDS Integers, Sequences, FiniteSets, TLC

VARIABLES
    history,               \* SearchAgent.history
    tool_call_records,     \* SearchAgent.tool_call_records
    is_final_answer,       \* SearchAgent.is_final_answer
    final_answer_payload,  \* SearchAgent.final_answer_payload
    tool_spec,             \* SearchAgent.tool_spec
    reporter,              \* SearchAgent._reporter: None, or the installed callable
    pc,                    \* position inside generate_from_messages / handle_tools
    it,                    \* local variable it of generate_from_messages
    response,              \* the choices of the current response iterated so far
    cur,                   \* the tool call whose callback is being awaited
    outcome,               \* how the last run ended, and its value
    request,               \* keyword arguments of the last chat.completions.create
    requests,              \* number of model requests issued by the current run
    calls,                 \* callback invocations made by the current run
    events,                \* reporter events of the current run, in order
    runs,                  \* runs of generate_from_messages started so far
    next_id,               \* next tool call identifier the endpoint hands out
    budget,                \* what the endpoint may still send (bounds the model)
    peer,                  \* the attributes of a second SearchAgent suspended at an await
    frame                  \* a call made outside the loop: its inputs and how it went

vars == <<history, tool_call_records, is_final_answer, final_answer_payload,
          tool_spec, reporter, pc, it, response, cur, outcome, request, requests,
          calls, events, runs, next_id, budget, peer, frame>>

---------------------------------------------------------------------------
(* Program constants *)

MAX_ITERATIONS == 10

FINAL_ANSWER_TOOL_NAME == "final_answer"

None == "<None>"

(* Bounds of the model *)

MaxRuns == 2       \* runs of generate_from_messages on one agent
MaxSent == 3       \* contents and tool calls the endpoint sends to one agent
MaxChoices == 2    \* choices in one response

---------------------------------------------------------------------------
(* Parsed JSON values: json.loads results, tagged by Python type. *)

JStr(s) == [t |-> "str", s |-> s]
JInt(n) == [t |-> "int", n |-> n]
JNull == [t |-> "NoneType"]
JBool(b) == [t |-> "bool", b |-> b]
JList(l) == [t |-> "list", l |-> l]
JDict(d) == [t |-> "dict", d |-> d]

(* The raw argument texts the endpoint may send, and what json.loads makes *)
(* of each.  A text json.loads rejects maps to [t |-> "JSONDecodeError"].  *)
RAW_EMPTY == ""
RAW_TRUNCATED == "{\"sql\": \"SELECT 1\""
RAW_UNQUOTED == "{sql: SELECT 1}"
RAW_LIST == "[\"SELECT 1\"]"
RAW_STRING == "\"SELECT 1\""
RAW_NUMBER == "7"
RAW_TRUE == "true"
RAW_NULL == "null"
RAW_OBJECT_EMPTY == "{}"
RAW_SQL == "{\"sql\": \"SELECT 1\"}"
RAW_SQL_LIMIT_1 == "{\"sql\": \"SELECT 1\", \"limit\": 1}"
RAW_SQL_LIMIT_200 == "{\"sql\": \"SELECT 1\", \"limit\": 200}"
RAW_SQL_LIMIT_0 == "{\"sql\": \"SELECT 1\", \"limit\": 0}"
RAW_SQL_LIMIT_201 == "{\"sql\": \"SELECT 1\", \"limit\": 201}"
RAW_SQL_LIMIT_WORD == "{\"sql\": \"SELECT 1\", \"limit\": \"many\"}"
RAW_SQL_LIMIT_TEXT == "{\"sql\": \"SELECT 1\", \"limit\": \"5\"}"
RAW_SQL_EXTRA == "{\"sql\": \"SELECT 1\", \"verbose\": true}"
RAW_SQL_BLANK == "{\"sql\": \"\"}"
RAW_SQL_INT == "{\"sql\": 7}"
RAW_LIMIT_ONLY == "{\"limit\": 5}"
RAW_QUERY == "{\"query\": \"mouse\"}"
RAW_QUERY_LIMIT_11 == "{\"query\": \"mouse\", \"limit\": 11}"
RAW_QUERY_LIMIT_5 == "{\"query\": \"mouse\", \"limit\": 5}"
RAW_PROMPT == "{\"prompt\": \"which?\"}"
RAW_PROMPT_ALLOW == "{\"prompt\": \"which?\", \"allow_empty\": true}"
RAW_ANSWER == "{\"answer\": \"29.99\"}"
RAW_ANSWER_SOURCES == "{\"answer\": \"29.99\", \"sources\": [\"items\"]}"
RAW_ANSWER_BLANK == "{\"answer\": \"\"}"
RAW_ANSWER_INT == "{\"answer\": 7}"

JsonLoads(raw) ==
    CASE raw = RAW_TRUNCATED -> [t |-> "JSONDecodeError"]
      [] raw = RAW_UNQUOTED -> [t |-> "JSONDecodeError"]
      [] raw = RAW_LIST -> JList(<<JStr("SELECT 1")>>)
      [] raw = RAW_STRING -> JStr("SELECT 1")
      [] raw = RAW_NUMBER -> JInt(7)
      [] raw = RAW_TRUE -> JBool(TRUE)
      [] raw = RAW_NULL -> JNull
      [] raw = RAW_OBJECT_EMPTY -> JDict(<<>>)
      [] raw = RAW_SQL -> JDict([sql |-> JStr("SELECT 1")])
      [] raw = RAW_SQL_LIMIT_1 -> JDict([sql |-> JStr("SELECT 1"), limit |-> JInt(1)])
      [] raw = RAW_SQL_LIMIT_200 -> JDict([sql |-> JStr("SELECT 1"), limit |-> JInt(200)])
      [] raw = RAW_SQL_LIMIT_0 -> JDict([sql |-> JStr("SELECT 1"), limit |-> JInt(0)])
      [] raw = RAW_SQL_LIMIT_201 -> JDict([sql |-> JStr("SELECT 1"), limit |-> JInt(201)])
      [] raw = RAW_SQL_LIMIT_WORD -> JDict([sql |-> JStr("SELECT 1"), limit |-> JStr("many")])
      [] raw = RAW_SQL_LIMIT_TEXT -> JDict([sql |-> JStr("SELECT 1"), limit |-> JStr("5")])
      [] raw = RAW_SQL_EXTRA -> JDict([sql |-> JStr("SELECT 1"), verbose |-> JBool(TRUE)])
      [] raw = RAW_SQL_BLANK -> JDict([sql |-> JStr("")])
      [] raw = RAW_SQL_INT -> JDict([sql |-> JInt(7)])
      [] raw = RAW_LIMIT_ONLY -> JDict([limit |-> JInt(5)])
      [] raw = RAW_QUERY -> JDict([query |-> JStr("mouse")])
      [] raw = RAW_QUERY_LIMIT_11 -> JDict([query |-> JStr("mouse"), limit |-> JInt(11)])
      [] raw = RAW_QUERY_LIMIT_5 -> JDict([query |-> JStr("mouse"), limit |-> JInt(5)])
      [] raw = RAW_PROMPT_ALLOW ->
            JDict([prompt |-> JStr("which?"), allow_empty |-> JBool(TRUE)])
      [] raw = RAW_PROMPT -> JDict([prompt |-> JStr("which?")])
      [] raw = RAW_ANSWER -> JDict([answer |-> JStr("29.99")])
      [] raw = RAW_ANSWER_SOURCES ->
            JDict([answer |-> JStr("29.99"), sources |-> JList(<<JStr("items")>>)])
      [] raw = RAW_ANSWER_BLANK -> JDict([answer |-> JStr("")])
      [] raw = RAW_ANSWER_INT -> JDict([answer |-> JInt(7)])

(* A parse that falls back to the empty object instead of keeping the raw  *)
(* text; C10 does not survive it.                                          *)
ParseArguments_Lenient(raw_text) ==
    LET raw_arguments == IF raw_text = RAW_EMPTY \/ raw_text = None
                         THEN RAW_OBJECT_EMPTY ELSE raw_text
        parsed == JsonLoads(raw_arguments)
    IN  IF parsed.t = "JSONDecodeError" THEN JDict(<< >>) ELSE parsed

(* handle_tools, lines 139-143: the value bound to arguments. *)
ParseArguments(raw_text) ==
    LET raw_arguments == IF raw_text = RAW_EMPTY \/ raw_text = None
                         THEN RAW_OBJECT_EMPTY ELSE raw_text
        parsed == JsonLoads(raw_arguments)
    IN  IF parsed.t = "JSONDecodeError" THEN JStr(raw_arguments) ELSE parsed


---------------------------------------------------------------------------
(* tools.py: the pydantic argument models.  A field is described by what   *)
(* its Field(...) declares.  min_length, ge and le are None_int when the   *)
(* declaration does not set them.                                          *)

None_int == -1

FieldInfo(name, type, required, default, min_length, ge, le) ==
    [name |-> name, type |-> type, required |-> required, default |-> default,
     min_length |-> min_length, ge |-> ge, le |-> le]

QueryPostgresArgs ==
    << FieldInfo("sql", "str", TRUE, JNull, 1, None_int, None_int),
       FieldInfo("limit", "int", FALSE, JInt(50), None_int, 1, 200) >>

QueryWeaviateArgs ==
    << FieldInfo("query", "str", TRUE, JNull, 1, None_int, None_int),
       FieldInfo("limit", "int", FALSE, JInt(3), None_int, 1, 10),
       FieldInfo("category", "Optional[str]", FALSE, JNull, None_int, None_int, None_int) >>

FinalAnswerArgs ==
    << FieldInfo("answer", "str", TRUE, JNull, None_int, None_int, None_int),
       FieldInfo("sources", "Optional[List]", FALSE, JNull, None_int, None_int, None_int) >>

RequestUserInputArgs ==
    << FieldInfo("prompt", "str", TRUE, JNull, None_int, None_int, None_int),
       FieldInfo("allow_empty", "bool", FALSE, JBool(FALSE), None_int, None_int, None_int) >>

(* tools.py: Tool, and the four Tool objects the module builds. *)
Tool(name, args_model, callback, is_coroutine) ==
    [name |-> name, args_model |-> args_model, callback |-> callback,
     is_coroutine |-> is_coroutine]

QUERY_POSTGRES_TOOL == Tool("query_postgres", QueryPostgresArgs, "query_postgres", FALSE)
QUERY_WEAVIATE_TOOL == Tool("query_weaviate", QueryWeaviateArgs, "query_weaviate", TRUE)
FINAL_ANSWER_TOOL == Tool(FINAL_ANSWER_TOOL_NAME, FinalAnswerArgs, "final_answer", FALSE)
REQUEST_USER_INPUT_TOOL ==
    Tool("request_user_input", RequestUserInputArgs, "request_user_input", FALSE)

ALL_TOOLS == << QUERY_POSTGRES_TOOL, QUERY_WEAVIATE_TOOL, REQUEST_USER_INPUT_TOOL >>

(* TOOLS = {tool.name: tool for tool in ALL_TOOLS}: the registry's keys. *)
TOOLS == { ALL_TOOLS[i].name : i \in 1..Len(ALL_TOOLS) }

(* TOOLS.get(tool_name); only evaluated for a name that is a key. *)
TOOLS_get(tool_name) ==
    LET i == CHOOSE j \in 1..Len(ALL_TOOLS) : ALL_TOOLS[j].name = tool_name
    IN  ALL_TOOLS[i]

---------------------------------------------------------------------------
(* pydantic validation of one field when tool.args_model is called on the *)
(* parsed arguments, for the value types the argument texts above         *)
(* produce.  The result is the                                             *)
(* list of error entries of that field (type and loc of exc.errors()).     *)

ErrorEntry(type, loc) == [type |-> type, loc |-> loc]

(* The models are not strict: an int field takes a text of decimal digits  *)
(* as the number it spells.                                                *)
Digit(c) ==
    CASE c = "0" -> 0 [] c = "1" -> 1 [] c = "2" -> 2 [] c = "3" -> 3 [] c = "4" -> 4
      [] c = "5" -> 5 [] c = "6" -> 6 [] c = "7" -> 7 [] c = "8" -> 8 [] c = "9" -> 9
      [] OTHER -> None_int

RECURSIVE IntOfText(_)
IntOfText(text) ==
    IF text = "" THEN None_int
    ELSE LET last == Digit(SubSeq(text, Len(text), Len(text)))
         IN  IF last = None_int THEN None_int
             ELSE IF Len(text) = 1 THEN last
             ELSE LET front == IntOfText(SubSeq(text, 1, Len(text) - 1))
                  IN  IF front = None_int THEN None_int ELSE front * 10 + last

Coerced(f, v) ==
    IF f.type = "int" /\ v.t = "str" /\ IntOfText(v.s) # None_int
    THEN JInt(IntOfText(v.s))
    ELSE v

(* A validation that ignores ge and le; C4 does not survive it. *)
FieldErrors_NoBounds(f, d) ==
    IF f.name \notin DOMAIN d
    THEN IF f.required THEN << ErrorEntry("missing", f.name) >> ELSE << >>
    ELSE LET v == Coerced(f, d[f.name]) IN
         CASE f.type = "str" ->
                IF v.t # "str" THEN << ErrorEntry("string_type", f.name) >>
                ELSE IF f.min_length # None_int /\ Len(v.s) < f.min_length
                     THEN << ErrorEntry("string_too_short", f.name) >>
                     ELSE << >>
           [] f.type = "int" ->
                IF v.t = "str" THEN << ErrorEntry("int_parsing", f.name) >>
                ELSE IF v.t # "int" THEN << ErrorEntry("int_type", f.name) >>
                ELSE << >>
           [] OTHER -> << >>

FieldErrors(f, d) ==
    IF f.name \notin DOMAIN d
    THEN IF f.required THEN << ErrorEntry("missing", f.name) >> ELSE << >>
    ELSE LET v == Coerced(f, d[f.name]) IN
         CASE f.type = "str" ->
                IF v.t # "str" THEN << ErrorEntry("string_type", f.name) >>
                ELSE IF f.min_length # None_int /\ Len(v.s) < f.min_length
                     THEN << ErrorEntry("string_too_short", f.name) >>
                     ELSE << >>
           [] f.type = "int" ->
                IF v.t = "str" THEN << ErrorEntry("int_parsing", f.name) >>
                ELSE IF v.t # "int" THEN << ErrorEntry("int_type", f.name) >>
                ELSE IF f.ge # None_int /\ v.n < f.ge
                     THEN << ErrorEntry("greater_than_equal", f.name) >>
                ELSE IF f.le # None_int /\ v.n > f.le
                     THEN << ErrorEntry("less_than_equal", f.name) >>
                     ELSE << >>
           [] f.type = "bool" ->
                IF v.t # "bool" THEN << ErrorEntry("bool_type", f.name) >> ELSE << >>
           [] f.type = "Optional[str]" ->
                IF v.t \notin {"str", "NoneType"}
                THEN << ErrorEntry("string_type", f.name) >> ELSE << >>
           [] f.type = "Optional[List]" ->
                IF v.t \notin {"list", "NoneType"}
                THEN << ErrorEntry("list_type", f.name) >> ELSE << >>

RECURSIVE ModelErrors(_, _)
ModelErrors(fields, d) ==
    IF fields = << >> THEN << >>
    ELSE FieldErrors(Head(fields), d) \o ModelErrors(Tail(fields), d)

(* A model whose omitted fields stay unset; C25 does not survive it. *)
FieldValue_NoDefault(f, d) == IF f.name \in DOMAIN d THEN Coerced(f, d[f.name]) ELSE JNull

(* validated_args.model_dump(exclude_none=True): every declared field with *)
(* the validated value, or its default when omitted; None values dropped,  *)
(* and so are the arguments the model does not declare.                    *)
FieldValue(f, d) == IF f.name \in DOMAIN d THEN Coerced(f, d[f.name]) ELSE f.default

ModelDump(fields, d) ==
    LET kept == { i \in 1..Len(fields) : FieldValue(fields[i], d).t # "NoneType" }
        names == { fields[i].name : i \in kept }
    IN  [ n \in names |->
            FieldValue(fields[CHOOSE i \in kept : fields[i].name = n], d) ]


---------------------------------------------------------------------------
(* errors.py: LLMError, and the shapes details takes in this code. *)

NoDetails == [k |-> "None"]
ToolNameDetails(tool_name) == [k |-> "tool_name", tool_name |-> tool_name]
ErrorsDetails(errors) == [k |-> "errors", errors |-> errors]
TextDetails(text) == [k |-> "str", text |-> text]

LLMError(reason, message, details) ==
    [cls |-> "LLMError", reason |-> reason, message |-> message, details |-> details]

(* LLMError.as_dict(): the same fields as a plain dict. *)
as_dict(error) == [error EXCEPT !.cls = "dict"]

(* tools.py: the result classes of the two query tools.  Rows and documents *)
(* are identified by a number; rowcount and truncated are None_int / FALSE  *)
(* when the constructor leaves them None.                                   *)
NoError == [cls |-> "NoneType"]

QueryPostgresResult(rows, rowcount, truncated, error) ==
    [cls |-> "QueryPostgresResult", rows |-> rows, rowcount |-> rowcount,
     truncated |-> truncated, error |-> error]

QueryWeaviateResult(results, error) ==
    [cls |-> "QueryWeaviateResult", results |-> results, error |-> error]

(* tools.py, final_answer: the payload dict; sources is kept only if given. *)
final_answer(kwargs) ==
    [cls |-> "dict", kind |-> "final_answer", answer |-> kwargs["answer"].s,
     sources |-> IF "sources" \in DOMAIN kwargs THEN kwargs["sources"].l ELSE << >>,
     has_sources |-> "sources" \in DOMAIN kwargs]

(* tools.py, request_user_input: the dicts it returns. *)
UserInputResult(text, error) ==
    [cls |-> "dict", kind |-> "user_input", response |-> text, error |-> error]

---------------------------------------------------------------------------
(* Serialisation.  json.dumps separates with ", " and ": "; pydantic's      *)
(* model_dump_json with "," and ":".  sep is the pair in use.               *)

PY == [item |-> ", ", key |-> ": "]
PYDANTIC == [item |-> ",", key |-> ":"]

Quote(s) == "\"" \o s \o "\""

RECURSIVE Join(_, _)
Join(parts, item) ==
    IF parts = << >> THEN ""
    ELSE IF Len(parts) = 1 THEN parts[1]
    ELSE parts[1] \o item \o Join(Tail(parts), item)

Pair(key, text, sep) == Quote(key) \o sep.key \o text

Object(pairs, sep) == "{" \o Join(pairs, sep.item) \o "}"

Array(items, sep) == "[" \o Join(items, sep.item) \o "]"

(* One entry of exc.errors(); msg, input and url are left out. *)
DumpErrorEntry(e, sep) ==
    Object(<< Pair("type", Quote(e.type), sep),
              Pair("loc", Array(<< Quote(e.loc) >>, sep), sep) >>, sep)

DumpDetails(details, sep) ==
    CASE details.k = "tool_name" ->
            Object(<< Pair("tool_name", Quote(details.tool_name), sep) >>, sep)
      [] details.k = "errors" ->
            Array([i \in 1..Len(details.errors) |->
                        DumpErrorEntry(details.errors[i], sep)], sep)
      [] details.k = "str" -> Quote(details.text)

(* An LLMError with exclude_none: type, reason, message and, unless None,   *)
(* details, in the order the class declares them.                          *)
DumpError(error, sep) ==
    Object(<< Pair("type", Quote("error"), sep),
              Pair("reason", Quote(error.reason), sep),
              Pair("message", Quote(error.message), sep) >>
           \o (IF error.details.k = "None" THEN << >>
               ELSE << Pair("details", DumpDetails(error.details, sep), sep) >>),
           sep)

DumpRow(row, sep) == Object(<< Pair("id", ToString(row), sep) >>, sep)

DumpStrings(l, sep) == Array([i \in 1..Len(l) |-> Quote(l[i].s)], sep)

(* memory.py, ToolMessage.as_message_param: the text stored as content.    *)
(* A BaseModel goes through model_dump_json(exclude_none=True), a dict     *)
(* through json.dumps(make_json_serializable(...)).                        *)
SerializeContent(content) ==
    CASE content.cls = "QueryPostgresResult" ->
            Object(<< Pair("rows", Array([i \in 1..Len(content.rows) |->
                            DumpRow(content.rows[i], PYDANTIC)], PYDANTIC), PYDANTIC) >>
                   \o (IF content.rowcount = None_int THEN << >>
                       ELSE << Pair("rowcount", ToString(content.rowcount), PYDANTIC) >>)
                   \o (IF content.truncated
                       THEN << Pair("truncated", "true", PYDANTIC) >> ELSE << >>)
                   \o (IF content.error.cls = "NoneType" THEN << >>
                       ELSE << Pair("error", DumpError(content.error, PYDANTIC), PYDANTIC) >>),
                   PYDANTIC)
      [] content.cls = "QueryWeaviateResult" ->
            Object(<< Pair("results", Array([i \in 1..Len(content.results) |->
                            DumpRow(content.results[i], PYDANTIC)], PYDANTIC), PYDANTIC) >>
                   \o (IF content.error.cls = "NoneType" THEN << >>
                       ELSE << Pair("error", DumpError(content.error, PYDANTIC), PYDANTIC) >>),
                   PYDANTIC)
      [] content.cls = "dict" /\ "reason" \in DOMAIN content -> DumpError(content, PY)
      [] content.cls = "dict" /\ content.kind = "final_answer" ->
            Object(<< Pair("answer", Quote(content.answer), PY) >>
                   \o (IF content.has_sources
                       THEN << Pair("sources", DumpStrings(content.sources, PY), PY) >>
                       ELSE << >>), PY)
      [] content.cls = "dict" /\ content.kind = "user_input" ->
            Object(<< Pair("response",
                           IF content.response = None THEN "null"
                           ELSE Quote(content.response), PY) >>
                   \o (IF content.error.cls = "NoneType" THEN << >>
                       ELSE << Pair("error", DumpError(content.error, PY), PY) >>), PY)

---------------------------------------------------------------------------
(* memory.py: the turns of the conversation. *)

system_message(content) == [role |-> "system", content |-> content]
user_message(content) == [role |-> "user", content |-> content]
assistant_message(content) == [role |-> "assistant", content |-> content]

(* ToolCall.from_openai_tool_call *)
from_openai_tool_call(tool_call) ==
    [name |-> tool_call.function.name, arguments |-> tool_call.function.arguments,
     id |-> tool_call.id]

(* ToolCall.as_message_param; arguments is a str here and is kept as it is. *)
ToolCall_as_message_param(record) ==
    [role |-> "assistant",
     tool_calls |-> << [id |-> record.id, type |-> "function",
                        function |-> [name |-> record.name,
                                      arguments |-> record.arguments]] >>]

(* A ToolMessage whose turn carries no content; C34 does not survive it. *)
ToolMessage_as_message_param_NoContent(tool_call_id, content) ==
    [role |-> "tool", tool_call_id |-> tool_call_id]

(* ToolMessage(tool_call_id=..., content=...).as_message_param() *)
ToolMessage_as_message_param(tool_call_id, content) ==
    [role |-> "tool", tool_call_id |-> tool_call_id,
     content |-> SerializeContent(content)]

(* dict.get("content") on a turn *)
GetContent(turn) == IF "content" \in DOMAIN turn THEN turn.content ELSE None

IsToolCallTurn(turn) == "tool_calls" \in DOMAIN turn
IsToolResultTurn(turn) == turn.role = "tool"


---------------------------------------------------------------------------
(* vllm.py, SearchAgent.__init__ *)

SCHEMA_MESSAGE == "Choose between the query_postgres SQL tool and the query_weaviate vector search tool ..."

(* Tool.to_openai_tool: a ChatCompletionFunctionToolParam, a TypedDict and *)
(* so a plain dict at run time.                                            *)
to_openai_tool(tool) == [shape |-> "dict", name |-> tool.name]

OPENAI_CHAT_TOOLS == [i \in 1..Len(ALL_TOOLS) |-> to_openai_tool(ALL_TOOLS[i])]

(* utils.py, get_tool_name: attribute access only.  shape says what the    *)
(* entry is: "dict" (no attributes), "function_attr" (has .function.name)  *)
(* or "name_attr" (has .name).                                             *)
get_tool_name(tool) ==
    IF tool.shape = "function_attr" THEN tool.name
    ELSE IF tool.shape = "name_attr" THEN tool.name
    ELSE ""

(* The tools argument: None, or a sequence of entries. *)
NoTools == [none |-> TRUE, list |-> << >>]
ToolsList(l) == [none |-> FALSE, list |-> l]

(* A constructor that keeps the tools as given; C9 does not survive it. *)
InitialToolSpec_AsGiven(tools) ==
    IF ~tools.none /\ tools.list # << >> THEN tools.list ELSE << >>

(* lines 69-72: tool_spec after construction *)
InitialToolSpec(tools) ==
    LET given == IF ~tools.none /\ tools.list # << >> THEN tools.list ELSE << >>
    IN  IF \E i \in 1..Len(given) : get_tool_name(given[i]) = FINAL_ANSWER_TOOL_NAME
        THEN given
        ELSE Append(given, to_openai_tool(FINAL_ANSWER_TOOL))

(* No call outside the loop has been made. *)
NoFrame == [fn |-> "none"]

(* No second agent has been constructed. *)
NoPeer == [name |-> "none"]

(* The state a constructor call leaves, before any run.  The budget of    *)
(* the endpoint is a bound of the model, not agent state.                  *)
Constructed(tools, observer, first_run, allowance) ==
    /\ history = << system_message(SCHEMA_MESSAGE) >>
    /\ tool_call_records = << >>
    /\ is_final_answer = FALSE
    /\ final_answer_payload = None
    /\ tool_spec = InitialToolSpec(tools)
    /\ reporter = observer
    /\ pc = "idle"
    /\ it = 0
    /\ response = << >>
    /\ cur = << >>
    /\ outcome = [kind |-> "none", value |-> None]
    /\ request = << >>
    /\ requests = 0
    /\ calls = << >>
    /\ events = << >>
    /\ runs = first_run
    /\ next_id = 1
    /\ budget = allowance
    /\ peer = NoPeer
    /\ frame = NoFrame

---------------------------------------------------------------------------
(* vllm.py, SearchAgent.generate_from_messages                             *)
(*                                                                         *)
(* The code reads response.choices and msg.tool_calls front to back and    *)
(* never looks ahead, so each choice and each tool call is drawn when the  *)
(* loop reaches it: response holds the part iterated so far, and the end   *)
(* of a sequence is drawn like its elements.                               *)

(* _log_event and _report, lines 216-221: the reporter, if one is          *)
(* installed, is called with the event; events is what it has been given. *)
Report(log, event) == IF reporter # None THEN Append(log, event) ELSE log

(* How a run ends: by a return value or by an exception leaving the call. *)
Returned(value) == [kind |-> "returned", value |-> value]
Raised(exception) == [kind |-> "raised", value |-> exception]

(* A run that starts without clearing the terminal flag and the payload;  *)
(* C35 does not survive it.                                                *)
Start_KeepsTerminalState(message, kwargs) ==
    /\ pc = "idle"
    /\ runs < MaxRuns
    /\ runs' = runs + 1
    /\ events' = Report(<< >>, [event |-> "user_message", message |-> message])
    /\ history' = Append(history, user_message(message))
    /\ it' = 0
    /\ pc' = "loop"
    /\ outcome' = [kind |-> "running", value |-> None]
    /\ request' = [kwargs |-> kwargs]
    /\ requests' = 0
    /\ calls' = << >>
    /\ response' = << >>
    /\ cur' = << >>
    /\ budget' = [budget EXCEPT !.stalled = FALSE]
    /\ UNCHANGED <<is_final_answer, final_answer_payload, tool_call_records, tool_spec, reporter, next_id, peer, frame>>

(* An entry that starts every run from the System turn alone; C16 does    *)
(* not survive it.                                                         *)
Start_FreshHistory(message, kwargs) ==
    /\ pc = "idle"
    /\ runs < MaxRuns
    /\ runs' = runs + 1
    /\ is_final_answer' = FALSE
    /\ final_answer_payload' = None
    /\ events' = Report(<< >>, [event |-> "user_message", message |-> message])
    /\ history' = << history[1], user_message(message) >>
    /\ it' = 0
    /\ pc' = "loop"
    /\ outcome' = [kind |-> "running", value |-> None]
    /\ request' = [kwargs |-> kwargs]
    /\ requests' = 0
    /\ calls' = << >>
    /\ response' = << >>
    /\ cur' = << >>
    /\ budget' = [budget EXCEPT !.stalled = FALSE]
    /\ UNCHANGED <<tool_call_records, tool_spec, reporter, next_id, peer, frame>>

(* lines 83-88: entry, up to the first test of the while loop *)
Start(message, kwargs) ==
    /\ pc = "idle"
    /\ runs < MaxRuns
    /\ runs' = runs + 1
    /\ is_final_answer' = FALSE
    /\ final_answer_payload' = None
    /\ events' = Report(<< >>, [event |-> "user_message", message |-> message])
    /\ history' = Append(history, user_message(message))
    /\ it' = 0
    /\ pc' = "loop"
    /\ outcome' = [kind |-> "running", value |-> None]
    /\ request' = [kwargs |-> kwargs]
    /\ requests' = 0
    /\ calls' = << >>
    /\ response' = << >>
    /\ cur' = << >>
    /\ budget' = [budget EXCEPT !.stalled = FALSE]
    /\ UNCHANGED <<tool_call_records, tool_spec, reporter, next_id, peer, frame>>

(* A loop test that is off by one; C3 does not survive it. *)
LoopTest_Inclusive(i) == i <= MAX_ITERATIONS

(* line 89: the test of the while loop *)
LoopTest(i) == i < MAX_ITERATIONS

(* A request that carries only the latest turn; C19 does not survive it. *)
ModelRequest_LatestTurnOnly ==
    /\ pc = "loop"
    /\ LoopTest(it)
    /\ events' = Report(events, [event |-> "model_request",
                                 temperature |-> request.kwargs.temperature,
                                 max_tokens |-> request.kwargs.max_tokens])
    /\ request' = [kwargs |-> request.kwargs,
                   messages |-> << history[Len(history)] >>,
                   temperature |-> request.kwargs.temperature,
                   max_tokens |-> request.kwargs.max_tokens,
                   tools |-> tool_spec,
                   tool_choice |-> "auto"]
    /\ requests' = requests + 1
    /\ pc' = "awaiting"
    /\ UNCHANGED <<history, tool_call_records, is_final_answer, final_answer_payload,
                   tool_spec, reporter, it, response, cur, outcome, calls, runs,
                   next_id, budget, peer, frame>>

(* lines 89-103: the loop test holds; the request is sent and awaited *)
ModelRequest ==
    /\ pc = "loop"
    /\ LoopTest(it)
    /\ events' = Report(events, [event |-> "model_request",
                                 temperature |-> request.kwargs.temperature,
                                 max_tokens |-> request.kwargs.max_tokens])
    /\ request' = [kwargs |-> request.kwargs,
                   messages |-> history,
                   temperature |-> request.kwargs.temperature,
                   max_tokens |-> request.kwargs.max_tokens,
                   tools |-> tool_spec,
                   tool_choice |-> "auto"]
    /\ requests' = requests + 1
    /\ pc' = "awaiting"
    /\ UNCHANGED <<history, tool_call_records, is_final_answer, final_answer_payload,
                   tool_spec, reporter, it, response, cur, outcome, calls, runs,
                   next_id, budget, peer, frame>>

(* A loop that swallows a failure of the request and tries again; C12     *)
(* does not survive it.                                                    *)
ModelRequestFails_Retried ==
    /\ pc = "awaiting"
    /\ pc' = "loop"
    /\ response' = << >>
    /\ UNCHANGED <<history, tool_call_records, is_final_answer, final_answer_payload,
                   tool_spec, reporter, it, cur, outcome, request, requests, calls,
                   events, runs, next_id, budget, peer, frame>>

(* line 96: the awaited create() raises; nothing catches it *)
ModelRequestFails ==
    /\ pc = "awaiting"
    /\ pc' = "idle"
    /\ outcome' = Raised("APIError")
    /\ response' = << >>
    /\ UNCHANGED <<history, tool_call_records, is_final_answer, final_answer_payload,
                   tool_spec, reporter, it, cur, request, requests, calls,
                   events, runs, next_id, budget, peer, frame>>

(* _build_failure_error, lines 223-227 *)
FailureError == LLMError("max_iterations_reached",
                         "LLM cannot find the answer to the user question.", NoDetails)

(* A cap that returns the failure without adding its turn to history;    *)
(* C37 does not survive it.                                               *)
MaxIterationsReached_NoTurn ==
    /\ pc = "loop"
    /\ ~LoopTest(it)
    /\ events' = Report(events, [event |-> "max_iterations_reached",
                                 iterations |-> MAX_ITERATIONS])
    /\ history' = history
    /\ outcome' = Returned(DumpError(FailureError, PYDANTIC))
    /\ pc' = "idle"
    /\ UNCHANGED <<tool_call_records, is_final_answer, final_answer_payload, tool_spec,
                   reporter, it, response, cur, request, requests, calls, runs,
                   next_id, budget, peer, frame>>

(* lines 129-134: the loop test fails *)
MaxIterationsReached ==
    /\ pc = "loop"
    /\ ~LoopTest(it)
    /\ events' = Report(events, [event |-> "max_iterations_reached",
                                 iterations |-> MAX_ITERATIONS])
    /\ history' = Append(history, assistant_message(as_dict(FailureError).message))
    /\ outcome' = Returned(DumpError(FailureError, PYDANTIC))
    /\ pc' = "idle"
    /\ UNCHANGED <<tool_call_records, is_final_answer, final_answer_payload, tool_spec,
                   reporter, it, response, cur, request, requests, calls, runs,
                   next_id, budget, peer, frame>>

(* line 105: the response has arrived; the loop over its choices begins *)
ModelResponds ==
    /\ pc = "awaiting"
    /\ response' = << >>
    /\ pc' = "choices"
    /\ UNCHANGED <<history, tool_call_records, is_final_answer, final_answer_payload,
                   tool_spec, reporter, it, cur, outcome, request, requests, calls,
                   events, runs, next_id, budget, peer, frame>>

(* Python truth of msg.content *)
Truthy(content) == content # None /\ content # ""

(* A choice as the loop meets it: its content, whether its tool_calls is a *)
(* non-empty list, and the tool calls of that list iterated so far.        *)
Choice(content, has_tool_calls) ==
    [message |-> [content |-> content, has_tool_calls |-> has_tool_calls,
                  tool_calls |-> << >>]]

(* A loop that takes a text content for the final answer; C8 does not     *)
(* survive it.                                                             *)
ChoiceWithContent_Terminal(content, has_tool_calls) ==
    /\ pc = "choices"
    /\ Len(response) < MaxChoices
    /\ Truthy(content)
    /\ budget.sent > 0
    /\ ~budget.stalled
    /\ budget' = [budget EXCEPT !.sent = @ - 1]
    /\ response' = Append(response, Choice(content, has_tool_calls))
    /\ events' = Report(Report(events,
                     [event |-> "reasoning", response_reasoning |-> None]),
                     [event |-> "model_response", content |-> content])
    /\ history' = Append(history, assistant_message(content))
    /\ is_final_answer' = TRUE
    /\ UNCHANGED <<tool_call_records, final_answer_payload, tool_spec,
                   reporter, pc, it, cur, outcome, request, requests, calls, runs,
                   next_id, peer, frame>>

(* lines 106-113: the next choice has content; its tool calls, if it has   *)
(* any, are not looked at (the elif of line 114)                           *)
ChoiceWithContent(content, has_tool_calls) ==
    /\ pc = "choices"
    /\ Len(response) < MaxChoices
    /\ Truthy(content)
    /\ budget.sent > 0
    /\ ~budget.stalled
    /\ budget' = [budget EXCEPT !.sent = @ - 1]
    /\ response' = Append(response, Choice(content, has_tool_calls))
    /\ events' = Report(Report(events,
                     [event |-> "reasoning", response_reasoning |-> None]),
                     [event |-> "model_response", content |-> content])
    /\ history' = Append(history, assistant_message(content))
    /\ UNCHANGED <<tool_call_records, is_final_answer, final_answer_payload, tool_spec,
                   reporter, pc, it, cur, outcome, request, requests, calls, runs,
                   next_id, peer, frame>>

(* lines 114-115: the next choice has no content and has tool calls *)
ChoiceWithToolCalls(content) ==
    /\ pc = "choices"
    /\ Len(response) < MaxChoices
    /\ ~Truthy(content)
    /\ budget.sent > 0
    /\ ~budget.stalled
    /\ response' = Append(response, Choice(content, TRUE))
    /\ pc' = "tools"
    /\ UNCHANGED <<history, tool_call_records, is_final_answer, final_answer_payload,
                   tool_spec, reporter, it, cur, outcome, request, requests, calls,
                   events, runs, next_id, budget, peer, frame>>

(* A loop that appends an Assistant turn for a choice without content;   *)
(* C38 does not survive it.                                               *)
ChoiceWithNothing_AppendsTurn(content) ==
    /\ pc = "choices"
    /\ Len(response) < MaxChoices
    /\ ~Truthy(content)
    /\ response' = Append(response, Choice(content, FALSE))
    /\ history' = Append(history, assistant_message(content))
    /\ UNCHANGED <<tool_call_records, is_final_answer, final_answer_payload,
                   tool_spec, reporter, pc, it, cur, outcome, request, requests, calls,
                   events, runs, next_id, budget, peer, frame>>

(* lines 106-115: the next choice has neither *)
ChoiceWithNothing(content) ==
    /\ pc = "choices"
    /\ Len(response) < MaxChoices
    /\ ~Truthy(content)
    /\ response' = Append(response, Choice(content, FALSE))
    /\ UNCHANGED <<history, tool_call_records, is_final_answer, final_answer_payload,
                   tool_spec, reporter, pc, it, cur, outcome, request, requests, calls,
                   events, runs, next_id, budget, peer, frame>>

(* A response none of whose choices has content or tool calls. *)
IsEmptyResponse(choices) ==
    \A i \in 1..Len(choices) :
        /\ ~Truthy(choices[i].message.content)
        /\ ~choices[i].message.has_tool_calls

(* lines 116-125: the choices are over and the terminal flag is set *)
ReturnFinalAnswer ==
    /\ pc = "choices"
    /\ is_final_answer
    /\ final_answer_payload' = GetContent(history[Len(history)])
    /\ outcome' = IF final_answer_payload' # None
                  THEN Returned(final_answer_payload')
                  ELSE Raised("AssertionError")
    /\ pc' = "idle"
    /\ response' = << >>
    /\ UNCHANGED <<history, tool_call_records, is_final_answer, tool_spec, reporter, it,
                   cur, request, requests, calls, events, runs, next_id,
                   budget, peer, frame>>

(* A loop that, the choices over and the flag not set, returns the content *)
(* of the latest turn; C20 does not survive it.                            *)
NextIteration_ReturnsLatest ==
    /\ pc = "choices"
    /\ ~is_final_answer
    /\ outcome' = Returned(GetContent(history[Len(history)]))
    /\ pc' = "idle"
    /\ response' = << >>
    /\ UNCHANGED <<history, tool_call_records, is_final_answer, final_answer_payload,
                   tool_spec, reporter, it, cur, request, requests, calls, events,
                   runs, next_id, budget, peer, frame>>

(* lines 116, 127: the choices are over and the terminal flag is not set *)
NextIteration ==
    /\ pc = "choices"
    /\ ~is_final_answer
    /\ it' = it + 1
    /\ pc' = "loop"
    /\ response' = << >>
    /\ budget' = [budget EXCEPT !.stalled = @ \/ IsEmptyResponse(response)]
    /\ UNCHANGED <<history, tool_call_records, is_final_answer, final_answer_payload,
                   tool_spec, reporter, cur, outcome, request, requests,
                   calls, events, runs, next_id, peer, frame>>

---------------------------------------------------------------------------
(* vllm.py, SearchAgent.handle_tools: one pass of its for loop per action, *)
(* split at the await of the callback.                                     *)

UnknownToolError(tool_name) ==
    LLMError("unknown_tool", "Unknown tool: " \o tool_name, ToolNameDetails(tool_name))

InvalidArgumentsError ==
    LLMError("invalid_arguments", "Tool arguments must be a JSON object.", NoDetails)

InvalidToolArgumentsError(errors) ==
    LLMError("invalid_tool_arguments", "Invalid tool arguments.", ErrorsDetails(errors))

(* lines 150-155 and 190-195: the payloads of the two events *)
ToolCallEvent(tool_call) ==
    [event |-> "tool_call", tool_name |-> tool_call.function.name,
     tool_call_id |-> tool_call.id,
     arguments |-> ParseArguments(tool_call.function.arguments)]

ToolResultEvent(tool_call, tool_response) ==
    [event |-> "tool_result", tool_name |-> tool_call.function.name,
     tool_call_id |-> tool_call.id, response |-> tool_response]

(* A handle_tools for which every tool is terminal; C15 does not survive  *)
(* it.                                                                     *)
MarksFinalAnswer_AnyTool(tool_name) == tool_name = tool_name

(* lines 197-198 *)
MarksFinalAnswer(tool_name) == tool_name = FINAL_ANSWER_TOOL_NAME

(* lines 157-182: which branch the call takes: "unknown_tool",             *)
(* "invalid_arguments", "invalid_tool_arguments" or "run".                  *)
Branch(tool_call) ==
    LET tool_name == tool_call.function.name
        arguments == ParseArguments(tool_call.function.arguments)
    IN  IF tool_name \notin TOOLS THEN "unknown_tool"
        ELSE IF arguments.t # "dict" THEN "invalid_arguments"
        ELSE IF ModelErrors(TOOLS_get(tool_name).args_model, arguments.d) # << >>
             THEN "invalid_tool_arguments"
             ELSE "run"

(* The tool_response of the three branches that do not run the callback. *)
ErrorResponse(tool_call) ==
    LET tool_name == tool_call.function.name
        arguments == ParseArguments(tool_call.function.arguments)
    IN  CASE Branch(tool_call) = "unknown_tool" -> as_dict(UnknownToolError(tool_name))
          [] Branch(tool_call) = "invalid_arguments" -> as_dict(InvalidArgumentsError)
          [] Branch(tool_call) = "invalid_tool_arguments" ->
                as_dict(InvalidToolArgumentsError(
                    ModelErrors(TOOLS_get(tool_name).args_model, arguments.d)))

(* The for loop of handle_tools takes the next tool call of the choice. *)
TakesToolCall(tool_call) ==
    /\ pc = "tools"
    /\ budget.sent > 0
    /\ tool_call.id = "call_" \o ToString(next_id)
    /\ next_id' = next_id + 1
    /\ budget' = [budget EXCEPT !.sent = @ - 1]
    /\ response' = [response EXCEPT ![Len(response)].message.tool_calls =
                                        Append(@, tool_call)]

(* line 138: the assertion on the class of the tool call fails *)
ToolCallNotFunction(tool_call) ==
    /\ TakesToolCall(tool_call)
    /\ tool_call.type # "function"
    /\ pc' = "idle"
    /\ outcome' = Raised("AssertionError")
    /\ UNCHANGED <<history, tool_call_records, is_final_answer, final_answer_payload,
                   tool_spec, reporter, it, cur, request, requests, calls, events,
                   runs, peer, frame>>

(* A handle_tools that keeps a record only of the invocations it runs;   *)
(* C36 does not survive it.                                               *)
ToolCallRejected_NotRecorded(tool_call) ==
    /\ TakesToolCall(tool_call)
    /\ tool_call.type = "function"
    /\ Branch(tool_call) # "run"
    /\ tool_call_records' = tool_call_records
    /\ history' = history
            \o << ToolCall_as_message_param(from_openai_tool_call(tool_call)),
                  ToolMessage_as_message_param(tool_call.id, ErrorResponse(tool_call)) >>
    /\ events' = Report(Report(events, ToolCallEvent(tool_call)),
                        ToolResultEvent(tool_call, ErrorResponse(tool_call)))
    /\ is_final_answer' = (is_final_answer \/ MarksFinalAnswer(tool_call.function.name))
    /\ UNCHANGED <<final_answer_payload, tool_spec, reporter, pc, it, cur, outcome,
                   request, requests, calls, runs, peer, frame>>

(* lines 138-198 on a branch that does not run the callback: the whole     *)
(* pass, from the ToolCall turn to the terminal flag.                      *)
ToolCallRejected(tool_call) ==
    /\ TakesToolCall(tool_call)
    /\ tool_call.type = "function"
    /\ Branch(tool_call) # "run"
    /\ tool_call_records' = Append(tool_call_records, from_openai_tool_call(tool_call))
    /\ history' = history
            \o << ToolCall_as_message_param(from_openai_tool_call(tool_call)),
                  ToolMessage_as_message_param(tool_call.id, ErrorResponse(tool_call)) >>
    /\ events' = Report(Report(events, ToolCallEvent(tool_call)),
                        ToolResultEvent(tool_call, ErrorResponse(tool_call)))
    /\ is_final_answer' = (is_final_answer \/ MarksFinalAnswer(tool_call.function.name))
    /\ UNCHANGED <<final_answer_payload, tool_spec, reporter, pc, it, cur, outcome,
                   request, requests, calls, runs, peer, frame>>

(* lines 138-182 on the branch that runs the callback, up to the await:    *)
(* the callback is called with the dumped validated arguments.             *)
ToolCallRuns(tool_call) ==
    /\ TakesToolCall(tool_call)
    /\ tool_call.type = "function"
    /\ Branch(tool_call) = "run"
    /\ tool_call_records' = Append(tool_call_records, from_openai_tool_call(tool_call))
    /\ history' = Append(history,
                     ToolCall_as_message_param(from_openai_tool_call(tool_call)))
    /\ events' = Report(events, ToolCallEvent(tool_call))
    /\ cur' = tool_call
    /\ calls' = Append(calls,
            [tool_call_id |-> tool_call.id,
             callback |-> TOOLS_get(tool_call.function.name).callback,
             is_coroutine |-> TOOLS_get(tool_call.function.name).is_coroutine,
             kwargs |-> ModelDump(TOOLS_get(tool_call.function.name).args_model,
                                  ParseArguments(tool_call.function.arguments).d)])
    /\ pc' = "callback"
    /\ UNCHANGED <<is_final_answer, final_answer_payload, tool_spec, reporter, it,
                   outcome, request, requests, runs, peer, frame>>

(* A handle_tools that ends the run with the payload when the callback     *)
(* hands back an error; C7 does not survive it.                            *)
CallbackReturns_EndsOnError(tool_response) ==
    /\ pc = "callback"
    /\ history' = Append(history, ToolMessage_as_message_param(cur.id, tool_response))
    /\ events' = Report(events, ToolResultEvent(cur, tool_response))
    /\ is_final_answer' = (is_final_answer \/ MarksFinalAnswer(cur.function.name))
    /\ cur' = << >>
    /\ IF tool_response.error.cls = "NoneType"
       THEN pc' = "tools" /\ outcome' = outcome
       ELSE pc' = "idle" /\ outcome' = Returned(SerializeContent(tool_response))
    /\ UNCHANGED <<tool_call_records, final_answer_payload, tool_spec, reporter, it,
                   response, request, requests, calls, runs, next_id, budget,
                   peer, frame>>

(* A handle_tools that calls the callback again when it hands back an     *)
(* error; C21 does not survive it.                                         *)
CallbackReturns_RetriesOnError(tool_response) ==
    /\ pc = "callback"
    /\ IF tool_response.error.cls = "NoneType"
       THEN /\ history' = Append(history,
                                ToolMessage_as_message_param(cur.id, tool_response))
            /\ events' = Report(events, ToolResultEvent(cur, tool_response))
            /\ is_final_answer' = (is_final_answer \/ MarksFinalAnswer(cur.function.name))
            /\ cur' = << >>
            /\ pc' = "tools"
            /\ calls' = calls
       ELSE /\ calls' = Append(calls, calls[Len(calls)])
            /\ UNCHANGED <<history, events, is_final_answer, cur, pc>>
    /\ UNCHANGED <<tool_call_records, final_answer_payload, tool_spec, reporter, it,
                   response, outcome, request, requests, runs, next_id, budget,
                   peer, frame>>

(* lines 180-198: the awaited callback returns tool_response *)
CallbackReturns(tool_response) ==
    /\ pc = "callback"
    /\ history' = Append(history, ToolMessage_as_message_param(cur.id, tool_response))
    /\ events' = Report(events, ToolResultEvent(cur, tool_response))
    /\ is_final_answer' = (is_final_answer \/ MarksFinalAnswer(cur.function.name))
    /\ cur' = << >>
    /\ pc' = "tools"
    /\ UNCHANGED <<tool_call_records, final_answer_payload, tool_spec, reporter, it,
                   response, outcome, request, requests, calls, runs, next_id, budget,
                   peer, frame>>

(* vllm.py, run, lines 230-237: an exception of the callback is re-raised  *)
(* by the await; handle_tools and generate_from_messages do not catch it.  *)
CallbackRaises ==
    /\ pc = "callback"
    /\ pc' = "idle"
    /\ outcome' = Raised("Exception")
    /\ response' = << >>
    /\ UNCHANGED <<history, tool_call_records, is_final_answer, final_answer_payload,
                   tool_spec, reporter, it, cur, request, requests, calls,
                   events, runs, next_id, budget, peer, frame>>

(* line 200: the tool calls of the choice are over (there was at least    *)
(* one: line 114 tested the list)                                          *)
HandleToolsReturns ==
    /\ pc = "tools"
    /\ response[Len(response)].message.tool_calls # << >>
    /\ pc' = "choices"
    /\ UNCHANGED <<history, tool_call_records, is_final_answer, final_answer_payload,
                   tool_spec, reporter, it, response, cur, outcome, request, requests,
                   calls, events, runs, next_id, budget, peer, frame>>

---------------------------------------------------------------------------
(* vllm.py, _report, lines 219-221: the reporter is called with nothing    *)
(* around the call, so an exception of the reporter leaves the method that *)
(* logged the event, at the line that logged it.  One action per place     *)
(* where an event is logged; each is the code up to that line.             *)

(* lines 83-85: the reporter raises on USER_MESSAGE, before the user turn  *)
(* is appended                                                             *)
ReporterRaisesOnUserMessage(message) ==
    /\ pc = "idle"
    /\ reporter # None
    /\ runs < MaxRuns
    /\ runs' = runs + 1
    /\ is_final_answer' = FALSE
    /\ final_answer_payload' = None
    /\ events' = Report(<< >>, [event |-> "user_message", message |-> message])
    /\ outcome' = Raised("ReporterError")
    /\ requests' = 0
    /\ calls' = << >>
    /\ response' = << >>
    /\ cur' = << >>
    /\ UNCHANGED <<history, tool_call_records, tool_spec, reporter, pc, it, request,
                   next_id, budget, peer, frame>>

(* lines 89-94: the reporter raises on MODEL_REQUEST, before the request *)
ReporterRaisesOnModelRequest ==
    /\ pc = "loop"
    /\ reporter # None
    /\ LoopTest(it)
    /\ events' = Report(events, [event |-> "model_request",
                                 temperature |-> request.kwargs.temperature,
                                 max_tokens |-> request.kwargs.max_tokens])
    /\ outcome' = Raised("ReporterError")
    /\ pc' = "idle"
    /\ UNCHANGED <<history, tool_call_records, is_final_answer, final_answer_payload,
                   tool_spec, reporter, it, response, cur, request, requests, calls,
                   runs, next_id, budget, peer, frame>>

(* lines 106-112: the reporter raises on REASONING or on MODEL_RESPONSE,   *)
(* before the Assistant turn is appended                                   *)
ReporterRaisesOnModelResponse(content, has_tool_calls) ==
    /\ pc = "choices"
    /\ reporter # None
    /\ Len(response) < MaxChoices
    /\ Truthy(content)
    /\ budget.sent > 0
    /\ ~budget.stalled
    /\ budget' = [budget EXCEPT !.sent = @ - 1]
    /\ response' = Append(response, Choice(content, has_tool_calls))
    /\ \/ events' = Report(events, [event |-> "reasoning", response_reasoning |-> None])
       \/ events' = Report(Report(events,
                        [event |-> "reasoning", response_reasoning |-> None]),
                        [event |-> "model_response", content |-> content])
    /\ outcome' = Raised("ReporterError")
    /\ pc' = "idle"
    /\ UNCHANGED <<history, tool_call_records, is_final_answer, final_answer_payload,
                   tool_spec, reporter, it, cur, request, requests, calls, runs,
                   next_id, peer, frame>>

(* lines 138-155: the reporter raises on TOOL_CALL, after the ToolCall     *)
(* turn is appended and before the tool is looked up                       *)
ReporterRaisesOnToolCall(tool_call) ==
    /\ TakesToolCall(tool_call)
    /\ reporter # None
    /\ tool_call.type = "function"
    /\ tool_call_records' = Append(tool_call_records, from_openai_tool_call(tool_call))
    /\ history' = Append(history,
                     ToolCall_as_message_param(from_openai_tool_call(tool_call)))
    /\ events' = Report(events, ToolCallEvent(tool_call))
    /\ outcome' = Raised("ReporterError")
    /\ pc' = "idle"
    /\ UNCHANGED <<is_final_answer, final_answer_payload, tool_spec, reporter, it, cur,
                   request, requests, calls, runs, peer, frame>>

(* lines 138-195 on a branch that does not run the callback: the reporter  *)
(* raises on TOOL_RESULT, after the ToolResult turn is appended and before *)
(* the terminal flag is set                                                *)
ReporterRaisesOnRejection(tool_call) ==
    /\ TakesToolCall(tool_call)
    /\ reporter # None
    /\ tool_call.type = "function"
    /\ Branch(tool_call) # "run"
    /\ tool_call_records' = Append(tool_call_records, from_openai_tool_call(tool_call))
    /\ history' = history
            \o << ToolCall_as_message_param(from_openai_tool_call(tool_call)),
                  ToolMessage_as_message_param(tool_call.id, ErrorResponse(tool_call)) >>
    /\ events' = Report(Report(events, ToolCallEvent(tool_call)),
                        ToolResultEvent(tool_call, ErrorResponse(tool_call)))
    /\ outcome' = Raised("ReporterError")
    /\ pc' = "idle"
    /\ UNCHANGED <<is_final_answer, final_answer_payload, tool_spec, reporter, it, cur,
                   request, requests, calls, runs, peer, frame>>

(* lines 180-195: the awaited callback returns tool_response and the       *)
(* reporter raises on TOOL_RESULT, before the terminal flag is set         *)
ReporterRaisesOnToolResult(tool_response) ==
    /\ pc = "callback"
    /\ reporter # None
    /\ history' = Append(history, ToolMessage_as_message_param(cur.id, tool_response))
    /\ events' = Report(events, ToolResultEvent(cur, tool_response))
    /\ outcome' = Raised("ReporterError")
    /\ pc' = "idle"
    /\ UNCHANGED <<tool_call_records, is_final_answer, final_answer_payload, tool_spec,
                   reporter, it, response, cur, request, requests, calls, runs,
                   next_id, budget, peer, frame>>

(* line 129: the reporter raises on MAX_ITERATIONS_REACHED, before the     *)
(* failure turn is appended                                                *)
ReporterRaisesOnMaxIterations ==
    /\ pc = "loop"
    /\ reporter # None
    /\ ~LoopTest(it)
    /\ events' = Report(events, [event |-> "max_iterations_reached",
                                 iterations |-> MAX_ITERATIONS])
    /\ outcome' = Raised("ReporterError")
    /\ pc' = "idle"
    /\ UNCHANGED <<history, tool_call_records, is_final_answer, final_answer_payload,
                   tool_spec, reporter, it, response, cur, request, requests, calls,
                   runs, next_id, budget, peer, frame>>

---------------------------------------------------------------------------
(* The environment: the caller, the chat endpoint and the tool callbacks.  *)

TEXT == "I will look that up."

FunctionCall(name, arguments) ==
    [type |-> "function", function |-> [name |-> name, arguments |-> arguments]]

CustomCall == [type |-> "custom", function |-> [name |-> "grammar", arguments |-> RAW_EMPTY]]

(* The tool call the endpoint sends next: a shape with the next fresh id. *)
WithId(shape) ==
    [id |-> "call_" \o ToString(next_id), type |-> shape.type, function |-> shape.function]

(* The tool invocations the endpoint sends in the loop specification: one  *)
(* that runs its callback, one that is rejected, the terminal one, and one *)
(* that is not a function call.                                            *)
LoopCalls ==
    { FunctionCall("query_postgres", RAW_SQL),
      FunctionCall("lookup_price", RAW_OBJECT_EMPTY),
      FunctionCall(FINAL_ANSWER_TOOL_NAME, RAW_ANSWER),
      CustomCall }

(* What a callback may hand back, whatever its arguments: a result or one  *)
(* of its error payloads.  (That it may raise instead is CallbackRaises.)  *)
CallbackResults(callback, kwargs) ==
    CASE callback = "query_postgres" ->
            { QueryPostgresResult(<< 1 >>, None_int, FALSE, NoError),
              QueryPostgresResult(<< >>, None_int, FALSE,
                    LLMError("sql_error", "syntax error", NoDetails)) }
      [] callback = "query_weaviate" ->
            { QueryWeaviateResult(<< 1 >>, NoError),
              QueryWeaviateResult(<< >>,
                    LLMError("connection_failure", "Failed to connect to Weaviate.",
                             TextDetails("refused"))) }
      [] callback = "request_user_input" ->
            { UserInputResult("blue", NoError),
              UserInputResult(None,
                    as_dict(LLMError("input_unavailable",
                        "Interactive input is unavailable in the current execution context.",
                        NoDetails))) }
      [] callback = "final_answer" -> { final_answer(kwargs) }

CallbackCompletes ==
    /\ pc = "callback"
    /\ \E tool_response \in CallbackResults(calls[Len(calls)].callback,
                                            calls[Len(calls)].kwargs) :
          CallbackReturns(tool_response)

(* What the endpoint may still send over the life of the agent: so many   *)
(* contents and tool calls; and once it has answered a request of a run   *)
(* with an empty response it is stalled, it answers the rest of the run   *)
(* with empty responses.                                                   *)
Allowance(n) == [sent |-> n, stalled |-> FALSE]

DefaultKwargs == [temperature |-> "0.0", max_tokens |-> 2048]

QUESTION == "What is the price of the Wireless Mouse?"

---------------------------------------------------------------------------
(* The loop specification: one agent, constructed without tools, run up to *)
(* MaxRuns times against an endpoint that sends LoopCalls.                 *)

Init == Constructed(NoTools, None, 0, Allowance(MaxSent))

Next ==
    \/ Start(QUESTION, DefaultKwargs)
    \/ ModelRequest
    \/ ModelRequestFails
    \/ MaxIterationsReached
    \/ ModelResponds
    \/ \E has_tool_calls \in BOOLEAN : ChoiceWithContent(TEXT, has_tool_calls)
    \/ ChoiceWithToolCalls(None)
    \/ ChoiceWithNothing("")
    \/ ReturnFinalAnswer
    \/ NextIteration
    \/ \E shape \in LoopCalls : ToolCallNotFunction(WithId(shape))
    \/ \E shape \in LoopCalls : ToolCallRejected(WithId(shape))
    \/ \E shape \in LoopCalls : ToolCallRuns(WithId(shape))
    \/ CallbackCompletes
    \/ CallbackRaises
    \/ HandleToolsReturns

Spec == Init /\ [][Next]_vars

---------------------------------------------------------------------------
(* The argument specification: one run of an agent constructed with any of *)
(* CallerTools, against an endpoint that sends one content or one tool     *)
(* call, drawn from every tool name with every argument text.              *)

MaxArgSent == 1    \* contents and tool calls the endpoint sends in this specification

GenericTexts ==
    { RAW_EMPTY, RAW_TRUNCATED, RAW_UNQUOTED, RAW_LIST, RAW_STRING, RAW_NUMBER,
      RAW_TRUE, RAW_NULL, RAW_OBJECT_EMPTY }

TextsFor(name) ==
    GenericTexts \cup
    CASE name = "query_postgres" ->
            { RAW_SQL, RAW_SQL_LIMIT_1, RAW_SQL_LIMIT_200, RAW_SQL_LIMIT_0,
              RAW_SQL_LIMIT_201, RAW_SQL_LIMIT_WORD, RAW_SQL_BLANK, RAW_SQL_INT,
              RAW_LIMIT_ONLY, RAW_SQL_LIMIT_TEXT, RAW_SQL_EXTRA }
      [] name = "query_weaviate" -> { RAW_QUERY, RAW_QUERY_LIMIT_5, RAW_QUERY_LIMIT_11 }
      [] name = "request_user_input" -> { RAW_PROMPT, RAW_PROMPT_ALLOW }
      [] name = FINAL_ANSWER_TOOL_NAME ->
            { RAW_ANSWER, RAW_ANSWER_SOURCES, RAW_ANSWER_BLANK, RAW_ANSWER_INT }
      [] OTHER -> { }

ArgNames ==
    { "query_postgres", "query_weaviate", "request_user_input",
      FINAL_ANSWER_TOOL_NAME, "lookup_price" }

ArgCalls ==
    { CustomCall } \cup
    UNION { { FunctionCall(name, text) : text \in TextsFor(name) } : name \in ArgNames }

(* What a caller passes as tools: nothing, an empty list, the registry's   *)
(* specification (which has no final_answer entry), or the final_answer    *)
(* entry alone.                                                            *)
CallerTools ==
    { NoTools, ToolsList(<< >>), ToolsList(OPENAI_CHAT_TOOLS),
      ToolsList(<< to_openai_tool(FINAL_ANSWER_TOOL) >>) }

InitArgs ==
    \E tools \in CallerTools :
        Constructed(tools, None, MaxRuns - 1, Allowance(MaxArgSent))

NextArgs ==
    \/ Start(QUESTION, DefaultKwargs)
    \/ ModelRequest
    \/ ModelRequestFails
    \/ MaxIterationsReached
    \/ ModelResponds
    \/ \E has_tool_calls \in BOOLEAN : ChoiceWithContent(TEXT, has_tool_calls)
    \/ \E content \in {None, ""} : ChoiceWithToolCalls(content)
    \/ ChoiceWithNothing(None)
    \/ ReturnFinalAnswer
    \/ NextIteration
    \/ \E shape \in ArgCalls : ToolCallNotFunction(WithId(shape))
    \/ \E shape \in ArgCalls : ToolCallRejected(WithId(shape))
    \/ \E shape \in ArgCalls : ToolCallRuns(WithId(shape))
    \/ CallbackCompletes
    \/ CallbackRaises
    \/ HandleToolsReturns

SpecArgs == InitArgs /\ [][NextArgs]_vars

---------------------------------------------------------------------------
(* The reporter specification: one run of an agent constructed with or     *)
(* without a reporter, against the endpoint of the loop specification; a   *)
(* reporter returns from a call or raises in it.                           *)

MaxReporterSent == 2   \* contents and tool calls the endpoint sends in this specification

Reporters == { None, "cli_event_printer" }

ReporterRaisesAfterCallback ==
    /\ pc = "callback"
    /\ \E tool_response \in CallbackResults(calls[Len(calls)].callback,
                                            calls[Len(calls)].kwargs) :
          ReporterRaisesOnToolResult(tool_response)

(* What a caller passes as sampling arguments: nothing, so the defaults of  *)
(* line 79-80, or values of its own.                                       *)
CallerKwargs == { DefaultKwargs, [temperature |-> "0.7", max_tokens |-> 256] }

InitReporter ==
    \E observer \in Reporters :
        Constructed(NoTools, observer, MaxRuns - 1, Allowance(MaxReporterSent))

(* The steps in which the reporter, if there is one, returns from every    *)
(* call.                                                                   *)
ReporterReturns ==
    \/ \E kwargs \in CallerKwargs : Start(QUESTION, kwargs)
    \/ ModelRequest
    \/ ModelRequestFails
    \/ MaxIterationsReached
    \/ ModelResponds
    \/ \E has_tool_calls \in BOOLEAN : ChoiceWithContent(TEXT, has_tool_calls)
    \/ ChoiceWithToolCalls(None)
    \/ ChoiceWithNothing("")
    \/ ReturnFinalAnswer
    \/ NextIteration
    \/ \E shape \in LoopCalls : ToolCallNotFunction(WithId(shape))
    \/ \E shape \in LoopCalls : ToolCallRejected(WithId(shape))
    \/ \E shape \in LoopCalls : ToolCallRuns(WithId(shape))
    \/ CallbackCompletes
    \/ CallbackRaises
    \/ HandleToolsReturns

(* The steps in which the reporter raises. *)
ReporterRaises ==
    \/ ReporterRaisesOnUserMessage(QUESTION)
    \/ ReporterRaisesOnModelRequest
    \/ \E has_tool_calls \in BOOLEAN : ReporterRaisesOnModelResponse(TEXT, has_tool_calls)
    \/ \E shape \in LoopCalls : ReporterRaisesOnToolCall(WithId(shape))
    \/ \E shape \in LoopCalls : ReporterRaisesOnRejection(WithId(shape))
    \/ ReporterRaisesAfterCallback
    \/ ReporterRaisesOnMaxIterations

NextReporter == ReporterReturns \/ ReporterRaises

SpecReporter == InitReporter /\ [][NextReporter]_vars

---------------------------------------------------------------------------
(* tools.py, the callbacks of the two query tools, as the code runs them   *)
(* against a store described by what each of its operations does: whether  *)
(* it succeeds or raises, and what it hands back.  A call ends by a value  *)
(* or by an exception; ops is the list of the operations the call made on  *)
(* the store, in order.                                                     *)

MaxRows == 201     \* rows the result of a statement holds
MaxLimit == 201    \* the limit a caller passes

Max(a, b) == IF a >= b THEN a ELSE b
Min(a, b) == IF a <= b THEN a ELSE b

(* str.strip() for texts padded with spaces *)
RECURSIVE Strip(_)
Strip(text) ==
    IF text = "" THEN ""
    ELSE IF SubSeq(text, 1, 1) = " " THEN Strip(SubSeq(text, 2, Len(text)))
    ELSE IF SubSeq(text, Len(text), Len(text)) = " "
         THEN Strip(SubSeq(text, 1, Len(text) - 1))
         ELSE text

CallReturned(value, ops) == [kind |-> "returned", value |-> value, ops |-> ops]
CallRaised(exception, ops) == [kind |-> "raised", value |-> exception, ops |-> ops]

(* tools.py lines 214-220: the for loop over enumerate(result), idx from 0: *)
(* an iteration with idx >= capped_limit sets truncated and breaks, any    *)
(* other appends the row.  Iterations lo..hi-1 are run as two halves, the  *)
(* second only if the first did not break.                                 *)
RECURSIVE Iterations(_, _, _, _)
Iterations(result, lo, hi, capped_limit) ==
    IF lo >= hi THEN [rows |-> << >>, truncated |-> FALSE]
    ELSE IF hi = lo + 1
    THEN IF lo >= capped_limit
         THEN [rows |-> << >>, truncated |-> TRUE]
         ELSE [rows |-> << result[lo + 1] >>, truncated |-> FALSE]
    ELSE LET mid == (lo + hi) \div 2
             first == Iterations(result, lo, mid, capped_limit)
         IN  IF first.truncated THEN first
             ELSE LET rest == Iterations(result, mid, hi, capped_limit)
                  IN  [rows |-> first.rows \o rest.rows, truncated |-> rest.truncated]

FetchRows(result, capped_limit) == Iterations(result, 0, Len(result), capped_limit)

(* A finally clause that disposes the engine only when the statement went  *)
(* through; C23 does not survive it.                                       *)
DisposeEngine_OnSuccessOnly(execute, ops) ==
    IF execute \in {"rows", "no_rows"} THEN Append(ops, "engine.dispose") ELSE ops

(* lines 241-243: the finally clause of the try that uses the engine; it   *)
(* runs on every way out of the try, and engine is not None there.         *)
DisposeEngine(execute, ops) == Append(ops, "engine.dispose")

(* A loop that stops one row late; C22 does not survive it. *)
query_postgres_body_OneRowLate(db, capped_limit) ==
    CASE db.execute = "no_rows" ->
            QueryPostgresResult(<< >>, db.rowcount, FALSE, NoError)
      [] db.execute = "rows" ->
            LET fetched == FetchRows(db.rows, capped_limit + 1)
            IN  QueryPostgresResult(fetched.rows, None_int, fetched.truncated, NoError)
      [] db.execute = "SQLAlchemyError" ->
            QueryPostgresResult(<< >>, None_int, FALSE,
                                LLMError("sql_error", "syntax error", NoDetails))
      [] db.execute = "Exception" ->
            QueryPostgresResult(<< >>, None_int, FALSE,
                                LLMError("unexpected_error", "boom", NoDetails))

(* lines 207-240: the try that uses the engine, by what the statement did: *)
(* it returned rows, returned none, raised an SQLAlchemyError, or raised   *)
(* another exception.  truncated is only set when the loop broke.          *)
query_postgres_body(db, capped_limit) ==
    CASE db.execute = "no_rows" ->
            QueryPostgresResult(<< >>, db.rowcount, FALSE, NoError)
      [] db.execute = "rows" ->
            LET fetched == FetchRows(db.rows, capped_limit)
            IN  QueryPostgresResult(fetched.rows, None_int, fetched.truncated, NoError)
      [] db.execute = "SQLAlchemyError" ->
            QueryPostgresResult(<< >>, None_int, FALSE,
                                LLMError("sql_error", "syntax error", NoDetails))
      [] db.execute = "Exception" ->
            QueryPostgresResult(<< >>, None_int, FALSE,
                                LLMError("unexpected_error", "boom", NoDetails))

(* lines 179-243 *)
query_postgres(sql, limit, db) ==
    LET capped_limit == Max(1, Min(limit, 200))
    IN  IF Strip(sql) = ""
        THEN CallReturned(
                QueryPostgresResult(<< >>, None_int, FALSE,
                    LLMError("invalid_sql", "SQL statement must not be empty.", NoDetails)),
                << >>)
        ELSE IF db.engine = "raises"
        THEN CallReturned(
                QueryPostgresResult(<< >>, None_int, FALSE,
                    LLMError("engine_initialization_failed", "no database", NoDetails)),
                << "_postgres_engine raises" >>)
        ELSE LET ops == DisposeEngine(db.execute,
                            << "_postgres_engine", "engine.begin", "connection.execute" >>)
             IN  IF db.dispose = "raises" /\ ops[Len(ops)] = "engine.dispose"
                 THEN CallRaised("Exception", ops)
                 ELSE CallReturned(query_postgres_body(db, capped_limit), ops)

(* The row with this number, and a result of so many rows in order. *)
Rows(n) == [i \in 1..n |-> i]

RowCounts == { 0, 1, 2, 3, 50, 51, 200, MaxRows }

Limits == { 0, 1, 2, 50, 200, MaxLimit }

SqlTexts == { "SELECT 1", "  SELECT 1 ", "   ", "" }

(* What the database does in one call. *)
Databases ==
    { [engine |-> "raises"] }
    \cup { [engine |-> "ok", execute |-> "rows", rows |-> Rows(n), dispose |-> d] :
              n \in RowCounts, d \in {"ok", "raises"} }
    \cup { [engine |-> "ok", execute |-> "no_rows", rowcount |-> n, dispose |-> d] :
              n \in {0, 3}, d \in {"ok", "raises"} }
    \cup { [engine |-> "ok", execute |-> e, dispose |-> d] :
              e \in {"SQLAlchemyError", "Exception"}, d \in {"ok", "raises"} }

(* A finally clause that closes the client only when the search returned; *)
(* C24 does not survive it.                                                *)
CloseClient_OnSuccessOnly(search, ops) ==
    IF search = "ok" THEN Append(ops, "client.close") ELSE ops

(* lines 333-334: the finally clause of the try that searches; it runs on  *)
(* every way out of that try.                                              *)
CloseClient(search, ops) == Append(ops, "client.close")

(* lines 308-332 and 336-380: the search by what it did, and the documents *)
(* built from the objects it returned.                                     *)
query_weaviate_body(store) ==
    CASE store.search = "ok" -> QueryWeaviateResult(store.objects, NoError)
      [] store.search = "WeaviateBaseError" ->
            QueryWeaviateResult(<< >>, LLMError("weaviate_error", "no such class", NoDetails))
      [] store.search = "Exception" ->
            QueryWeaviateResult(<< >>, LLMError("unexpected_error", "boom", NoDetails))

(* lines 259-380.  The client is built at line 275 without connecting      *)
(* (skip_init_checks); a connect() that raises is taken to leave it        *)
(* unconnected, which is the contract of the library, not of this code.    *)
query_weaviate(query, limit, store) ==
    LET normalized_limit == Max(1, Min(limit, 10))
    IN  IF Strip(query) = ""
        THEN CallReturned(
                QueryWeaviateResult(<< >>,
                    LLMError("invalid_query", "Query string must not be empty.", NoDetails)),
                << >>)
        ELSE IF store.client = "raises"
        THEN CallRaised("Exception", << "_weaviate_client raises" >>)
        ELSE IF store.embed = "raises"
        THEN CallReturned(
                QueryWeaviateResult(<< >>,
                    LLMError("embedding_failure", "Failed to embed query.",
                             TextDetails("no model"))),
                << "_weaviate_client", "embed_contents raises" >>)
        ELSE IF store.connect = "raises"
        THEN CallReturned(
                QueryWeaviateResult(<< >>,
                    LLMError("connection_failure", "Failed to connect to Weaviate.",
                             TextDetails("refused"))),
                << "_weaviate_client", "embed_contents", "client.connect raises" >>)
        ELSE LET ops == CloseClient(store.search,
                            << "_weaviate_client", "embed_contents", "client.connect",
                               "near_vector" >>)
             IN  IF store.close = "raises" /\ ops[Len(ops)] = "client.close"
                 THEN CallRaised("Exception", ops)
                 ELSE CallReturned(query_weaviate_body(store), ops)

QueryTexts == { "refund policy", " refund policy ", "  ", "" }

WeaviateLimits == { 0, 3, 10, 11 }

(* What the embedder and the vector store do in one call. *)
Stores ==
    { [client |-> "raises"] }
    \cup { [client |-> "ok", embed |-> "raises"] }
    \cup { [client |-> "ok", embed |-> "ok", connect |-> "raises"] }
    \cup { [client |-> "ok", embed |-> "ok", connect |-> "ok", search |-> "ok",
            objects |-> Rows(n), close |-> c] : n \in {0, 1, 3}, c \in {"ok", "raises"} }
    \cup { [client |-> "ok", embed |-> "ok", connect |-> "ok", search |-> e, close |-> c] :
              e \in {"WeaviateBaseError", "Exception"}, c \in {"ok", "raises"} }

agent_vars == <<history, tool_call_records, is_final_answer, final_answer_payload,
                tool_spec, reporter, pc, it, response, cur, outcome, request,
                requests, calls, events, runs, next_id, budget, peer>>

(* query_postgres(sql=..., limit=...) called on its own *)
CallQueryPostgres(sql, limit, db) ==
    /\ frame = NoFrame
    /\ frame' = [fn |-> "query_postgres", sql |-> sql, limit |-> limit, db |-> db,
                 out |-> query_postgres(sql, limit, db)]
    /\ UNCHANGED agent_vars

(* query_weaviate(query=..., limit=...) awaited on its own *)
CallQueryWeaviate(query, limit, store) ==
    /\ frame = NoFrame
    /\ frame' = [fn |-> "query_weaviate", query |-> query, limit |-> limit,
                 store |-> store, out |-> query_weaviate(query, limit, store)]
    /\ UNCHANGED agent_vars

---------------------------------------------------------------------------
(* Two SearchAgent objects on one event loop.  The variables of the loop   *)
(* are those of the agent whose coroutine is running; peer holds those of  *)
(* the other one, suspended at an await or not started.  What __init__     *)
(* assigns belongs to the instance, what generate_from_messages binds      *)
(* belongs to its coroutine; TOOLS is a module-level dict that no          *)
(* statement of the package assigns to, here a definition.                 *)

MaxPeerSent == 1   \* contents and tool calls the endpoint sends to each agent

SECOND_QUESTION == "How many orders shipped in May?"

QuestionOf(name) == IF name = "first" THEN QUESTION ELSE SECOND_QUESTION

Other(name) == IF name = "first" THEN "second" ELSE "first"

Running == Other(peer.name)

Attributes ==
    [history |-> history, tool_call_records |-> tool_call_records,
     is_final_answer |-> is_final_answer, final_answer_payload |-> final_answer_payload,
     tool_spec |-> tool_spec, reporter |-> reporter, pc |-> pc, it |-> it,
     response |-> response, cur |-> cur, outcome |-> outcome, request |-> request,
     requests |-> requests, calls |-> calls, events |-> events, runs |-> runs,
     budget |-> budget]

Suspended(name, attributes) ==
    [n \in DOMAIN attributes \cup {"name"} |->
        IF n = "name" THEN name ELSE attributes[n]]

(* second = SearchAgent(): lines 43-72 run for another object *)
ConstructSecond ==
    /\ peer = NoPeer
    /\ peer' = Suspended("second",
                  [history |-> << system_message(SCHEMA_MESSAGE) >>,
                   tool_call_records |-> << >>,
                   is_final_answer |-> FALSE,
                   final_answer_payload |-> None,
                   tool_spec |-> InitialToolSpec(NoTools),
                   reporter |-> None,
                   pc |-> "idle", it |-> 0, response |-> << >>, cur |-> << >>,
                   outcome |-> [kind |-> "none", value |-> None],
                   request |-> << >>, requests |-> 0, calls |-> << >>,
                   events |-> << >>, runs |-> MaxRuns - 1,
                   budget |-> Allowance(MaxPeerSent)])
    /\ UNCHANGED <<history, tool_call_records, is_final_answer, final_answer_payload,
                   tool_spec, reporter, pc, it, response, cur, outcome, request,
                   requests, calls, events, runs, next_id, budget, frame>>

(* An event loop on which both agents use one history list; C28 does not   *)
(* survive it.                                                             *)
Switch_SharedHistory ==
    /\ peer # NoPeer
    /\ pc \in {"idle", "awaiting", "callback"}
    /\ peer' = Suspended(Running, Attributes)
    /\ history' = history
    /\ tool_call_records' = peer.tool_call_records
    /\ is_final_answer' = peer.is_final_answer
    /\ final_answer_payload' = peer.final_answer_payload
    /\ tool_spec' = peer.tool_spec
    /\ reporter' = peer.reporter
    /\ pc' = peer.pc
    /\ it' = peer.it
    /\ response' = peer.response
    /\ cur' = peer.cur
    /\ outcome' = peer.outcome
    /\ request' = peer.request
    /\ requests' = peer.requests
    /\ calls' = peer.calls
    /\ events' = peer.events
    /\ runs' = peer.runs
    /\ budget' = peer.budget
    /\ UNCHANGED <<next_id, frame>>

(* The running coroutine is at an await (the request at lines 96-103, the  *)
(* callback at lines 180-182) or has not started or has returned, and the  *)
(* event loop resumes the other agent: self is the other object from here. *)
Switch ==
    /\ peer # NoPeer
    /\ pc \in {"idle", "awaiting", "callback"}
    /\ peer' = Suspended(Running, Attributes)
    /\ history' = peer.history
    /\ tool_call_records' = peer.tool_call_records
    /\ is_final_answer' = peer.is_final_answer
    /\ final_answer_payload' = peer.final_answer_payload
    /\ tool_spec' = peer.tool_spec
    /\ reporter' = peer.reporter
    /\ pc' = peer.pc
    /\ it' = peer.it
    /\ response' = peer.response
    /\ cur' = peer.cur
    /\ outcome' = peer.outcome
    /\ request' = peer.request
    /\ requests' = peer.requests
    /\ calls' = peer.calls
    /\ events' = peer.events
    /\ runs' = peer.runs
    /\ budget' = peer.budget
    /\ UNCHANGED <<next_id, frame>>

InitPeers == Constructed(NoTools, None, MaxRuns - 1, Allowance(MaxPeerSent))

(* The steps of whichever agent is running, and the switch.  The runs that *)
(* an exception ends are covered by the one-agent specifications.         *)
NextPeers ==
    \/ ConstructSecond
    \/ Switch
    \/ Start(QuestionOf(Running), DefaultKwargs)
    \/ ModelRequest
    \/ MaxIterationsReached
    \/ ModelResponds
    \/ \E has_tool_calls \in BOOLEAN : ChoiceWithContent(TEXT, has_tool_calls)
    \/ ChoiceWithToolCalls(None)
    \/ ChoiceWithNothing("")
    \/ ReturnFinalAnswer
    \/ NextIteration
    \/ \E shape \in LoopCalls : ToolCallNotFunction(WithId(shape))
    \/ \E shape \in LoopCalls : ToolCallRejected(WithId(shape))
    \/ \E shape \in LoopCalls : ToolCallRuns(WithId(shape))
    \/ CallbackCompletes
    \/ HandleToolsReturns

SpecPeers == InitPeers /\ [][NextPeers]_vars

(* cli.py, run as python -m nodepragagent.cli with no arguments.  The      *)
(* import system runs the package's __init__.py and then cli.py, whose     *)
(* from-imports must name things vllm.py defines; then main() reads the    *)
(* prompts one by one.  A session is the list of what the model call does  *)
(* for each prompt the user types: "returns" or "raises".                  *)

MaxPrompts == 3    \* prompts the user types in one session

(* the names vllm.py binds at module level: lines 37, 38, 40 and 230 *)
VLLM_NAMES == { "MAX_ITERATIONS", "SCHEMA_JSON", "SearchAgent", "run" }

(* cli.py line 9: from .vllm import VLLMClient, VLLMConfig *)
CLI_IMPORTS == { "VLLMClient", "VLLMConfig" }

(* cli.py lines 103-118: the for loop over the prompts *)
RECURSIVE prompt_loop(_, _)
prompt_loop(session, done) ==
    IF session = << >> THEN done
    ELSE IF Head(session) = "raises"
    THEN prompt_loop(Tail(session),
            [done EXCEPT !.stderr = Append(@, "[ERROR] Failed to call model: boom"),
                         !.prompts = @ + 1])
    ELSE prompt_loop(Tail(session),
            [done EXCEPT !.stdout = Append(@, "Agent> 29.99"),
                         !.prompts = @ + 1])

(* The process from start to exit: what it printed, how many prompts it    *)
(* took, and the exception it died of, if any.                              *)
cli(session) ==
    IF ~(CLI_IMPORTS \subseteq VLLM_NAMES)
    THEN [stdout |-> << >>, stderr |-> << "ImportError: cannot import name VLLMClient" >>,
          prompts |-> 0, exit |-> "ImportError"]
    ELSE prompt_loop(session,
            [stdout |-> << "NoDepRAGAgent CLI." >>, stderr |-> << >>, prompts |-> 0,
             exit |-> None])

RECURSIVE Sessions(_)
Sessions(n) ==
    IF n = 0 THEN { << >> }
    ELSE Sessions(n - 1) \cup
         { Append(session, how) : session \in { x \in Sessions(n - 1) : Len(x) = n - 1 },
                                   how \in {"returns", "raises"} }

RunCli(session) ==
    /\ frame = NoFrame
    /\ frame' = [fn |-> "cli", session |-> session, out |-> cli(session)]
    /\ UNCHANGED agent_vars

(* The specification of the calls made outside the loop: no agent runs. *)
InitTools == Constructed(NoTools, None, 0, Allowance(0))

NextTools ==
    \/ \E sql \in SqlTexts, limit \in Limits, db \in Databases :
            CallQueryPostgres(sql, limit, db)
    \/ \E query \in QueryTexts, limit \in WeaviateLimits, store \in Stores :
            CallQueryWeaviate(query, limit, store)
    \/ \E session \in Sessions(MaxPrompts) : RunCli(session)

SpecTools == InitTools /\ [][NextTools]_vars

---------------------------------------------------------------------------
(* Reading the history. *)

ToolCallOf(turn) == turn.tool_calls[1]

(* The ToolResult turns after turn i that answer its tool call. *)
ResultsAfter(h, i) ==
    { j \in (i + 1)..Len(h) :
        IsToolResultTurn(h[j]) /\ h[j].tool_call_id = ToolCallOf(h[i]).id }

Correlated(h) ==
    \A i \in 1..Len(h) : IsToolCallTurn(h[i]) => Cardinality(ResultsAfter(h, i)) = 1

(* The user turn that opened the latest run, and the turns after it. *)
RunStart(h) == CHOOSE i \in 1..Len(h) :
                  h[i].role = "user" /\ \A j \in (i + 1)..Len(h) : h[j].role # "user"

RunTurns == SubSeq(history, RunStart(history) + 1, Len(history))

(* The final_answer invocations of the latest run, by position in history. *)
FinalAnswerTurns ==
    { i \in (RunStart(history) + 1)..Len(history) :
        IsToolCallTurn(history[i])
        /\ ToolCallOf(history[i]).function.name = FINAL_ANSWER_TOOL_NAME }

(* The answer argument of a final_answer invocation. *)
AnswerArgument(turn) == JsonLoads(ToolCallOf(turn).function.arguments).d.answer.s

HasPrefix(s, p) == Len(s) >= Len(p) /\ SubSeq(s, 1, Len(p)) = p

(* A ToolResult turn whose content is a Structured Error with this reason, *)
(* as json.dumps writes it.                                                *)
IsErrorResult(turn, reason) ==
    /\ IsToolResultTurn(turn)
    /\ HasPrefix(turn.content,
                 "{\"type\": \"error\", \"reason\": \"" \o reason \o "\", ")

---------------------------------------------------------------------------
(* C1: whenever a model request is issued, every ToolCall turn of history  *)
(* is followed by exactly one ToolResult turn with the same call id.       *)
(* Stated as the claim puts it; it fails on the request that follows a run *)
(* ended by an exception of a callback.                                    *)
C1_CorrelationAtEveryRequest == pc = "awaiting" => Correlated(history)

(* C2: a run in which a response invoked final_answer returns the answer   *)
(* argument of that invocation, and no model request is issued after the   *)
(* response that held it.  Stated as the claim puts it; the value returned *)
(* is the unknown_tool error, final_answer not being a key of TOOLS.       *)
C2_ReturnsAnswerArgument ==
    /\ (pc = "awaiting" => FinalAnswerTurns = {})
    /\ (pc = "idle" /\ outcome.kind = "returned" /\ FinalAnswerTurns # {}) =>
            \E i \in FinalAnswerTurns : outcome.value = AnswerArgument(history[i])

MaxIterationsReachedJson ==
    "{\"type\":\"error\",\"reason\":\"max_iterations_reached\",\"message\":\"LLM cannot find the answer to the user question.\"}"

---------------------------------------------------------------------------
(* The claims on argument handling, under SpecArgs. *)

(* Invocations of a registered tool with a JSON object that breaks its     *)
(* schema: a required field missing, a wrong type, a value out of range.   *)
SchemaViolations ==
    { << "query_postgres", RAW_OBJECT_EMPTY >>, << "query_postgres", RAW_LIMIT_ONLY >>,
      << "query_postgres", RAW_SQL_INT >>, << "query_postgres", RAW_SQL_LIMIT_WORD >>,
      << "query_postgres", RAW_SQL_LIMIT_0 >>, << "query_postgres", RAW_SQL_LIMIT_201 >>,
      << "query_postgres", RAW_SQL_BLANK >>,
      << "query_weaviate", RAW_OBJECT_EMPTY >>, << "query_weaviate", RAW_QUERY_LIMIT_11 >>,
      << "request_user_input", RAW_OBJECT_EMPTY >> }

(* Argument texts that do not parse, or parse to something not an object. *)
NotAnObject ==
    { RAW_TRUNCATED, RAW_UNQUOTED, RAW_LIST, RAW_STRING, RAW_NUMBER, RAW_TRUE, RAW_NULL }

(* Turn i is a ToolCall turn answered at once by a Structured Error with   *)
(* this reason, and no callback was called for it.                         *)
RejectedWith(i, reason) ==
    /\ i < Len(history)
    /\ IsErrorResult(history[i + 1], reason)
    /\ history[i + 1].tool_call_id = ToolCallOf(history[i]).id
    /\ \A k \in 1..Len(calls) : calls[k].tool_call_id # ToolCallOf(history[i]).id

(* C4: an invocation of a registered tool with a JSON object that breaks   *)
(* the argument schema of the tool gets a ToolResult with reason           *)
(* invalid_tool_arguments, and the callback of the tool is not called for  *)
(* it.                                                                     *)
C4_ValidationRejection ==
    \A i \in 1..Len(history) :
        ( /\ IsToolCallTurn(history[i])
          /\ << ToolCallOf(history[i]).function.name,
                ToolCallOf(history[i]).function.arguments >> \in SchemaViolations )
        => RejectedWith(i, "invalid_tool_arguments")

(* query_postgres with limit 201 was rejected, nothing was called. *)
C4_Witness ==
    /\ Len(history) = 4
    /\ IsToolCallTurn(history[3])
    /\ ToolCallOf(history[3]).function = [name |-> "query_postgres",
                                          arguments |-> RAW_SQL_LIMIT_201]
    /\ IsErrorResult(history[4], "invalid_tool_arguments")
    /\ calls = << >>
    /\ pc = "loop"

(* C9: the tools sent with every model request include the final_answer    *)
(* tool, whatever the constructor was given as tools.                      *)
C9_FinalAnswerAlwaysOffered ==
    pc = "awaiting" =>
        \E i \in 1..Len(request.tools) : request.tools[i].name = FINAL_ANSWER_TOOL_NAME

(* A request of an agent built with the registry's three tools, which      *)
(* leave final_answer out.                                                 *)
C9_Witness ==
    /\ pc = "awaiting"
    /\ Len(request.tools) = Len(OPENAI_CHAT_TOOLS) + 1
    /\ SubSeq(request.tools, 1, Len(OPENAI_CHAT_TOOLS)) = OPENAI_CHAT_TOOLS
    /\ request.tools[Len(request.tools)].name = FINAL_ANSWER_TOOL_NAME

---------------------------------------------------------------------------
(* The claims on the loop, under Spec. *)

(* The step appends the ToolCall turn of an invocation. *)
AppendsToolCall ==
    /\ Len(history') > Len(history)
    /\ IsToolCallTurn(history'[Len(history) + 1])

(* C5: an invocation whose name is not a key of TOOLS gets a ToolResult    *)
(* with reason unknown_tool, no callback is called, no exception is        *)
(* raised, and the loop goes on to the next model request: the invocation  *)
(* neither ends the run nor sets the terminal flag that makes the loop     *)
(* return.  Stated as the claim puts it; it fails for final_answer, which  *)
(* is not a key of TOOLS.                                                  *)
C5_UnknownTool ==
    [][ ( /\ AppendsToolCall
          /\ ToolCallOf(history'[Len(history) + 1]).function.name \notin TOOLS )
        => /\ Len(history') = Len(history) + 2
           /\ IsErrorResult(history'[Len(history) + 2], "unknown_tool")
           /\ history'[Len(history) + 2].tool_call_id =
                  ToolCallOf(history'[Len(history) + 1]).id
           /\ calls' = calls
           /\ outcome' = outcome
           /\ pc' = "tools"
           /\ is_final_answer' = is_final_answer ]_vars

(* No turn of the latest run is a text of the model. *)
OnlyToolTurns ==
    \A i \in 1..Len(RunTurns) : IsToolCallTurn(RunTurns[i]) \/ IsToolResultTurn(RunTurns[i])

(* C6: a run whose responses held only tool invocations, the k-th of them  *)
(* final_answer, makes exactly k model requests (it counts the responses   *)
(* before the k-th) and returns exactly the answer given to final_answer.  *)
(* Stated as the claim puts it; the requests are k, the value is not the   *)
(* answer.                                                                 *)
C6_RoundTrip ==
    (pc = "idle" /\ outcome.kind = "returned" /\ FinalAnswerTurns # {} /\ OnlyToolTurns)
    => /\ requests = it + 1
       /\ \A i \in FinalAnswerTurns : outcome.value = AnswerArgument(history[i])

(* What query_postgres hands back on an SQLAlchemyError, as stored. *)
SqlErrorContent ==
    "{\"rows\":[],\"error\":{\"type\":\"error\",\"reason\":\"sql_error\",\"message\":\"syntax error\"}}"

SqlErrorTurns(h) ==
    { i \in 1..Len(h) : IsToolResultTurn(h[i]) /\ h[i].content = SqlErrorContent }

(* C7: when a callback has returned, its payload, error payloads included, *)
(* is appended as the ToolResult turn of the call and the run goes on;     *)
(* an error payload does not set the terminal flag; every model request    *)
(* carries the error turns appended so far; and a run that went through an *)
(* error and then final_answer ends within the cap.                        *)
C7_ErrorRecovery ==
    /\ [][ (pc = "callback" /\ outcome' = outcome)
           => /\ Len(history') = Len(history) + 1
              /\ IsToolResultTurn(history'[Len(history')])
              /\ history'[Len(history')].tool_call_id = ToolCallOf(history[Len(history)]).id
              /\ SubSeq(history', 1, Len(history)) = history
              /\ pc' = "tools"
              /\ (history'[Len(history')].content = SqlErrorContent
                    => is_final_answer' = is_final_answer) ]_vars
    /\ [][ pc = "callback" => outcome'.kind \in {"running", "raised"} ]_vars
    /\ [](pc = "awaiting" =>
            /\ request.messages = history
            /\ \A i \in SqlErrorTurns(history) :
                    /\ IsToolCallTurn(history[i - 1])
                    /\ ToolCallOf(history[i - 1]).id = history[i].tool_call_id)
    /\ []((pc = "choices" /\ is_final_answer /\ SqlErrorTurns(RunTurns) # {})
            => /\ requests <= MAX_ITERATIONS
               /\ ENABLED ReturnFinalAnswer
               /\ ~ENABLED NextIteration)

(* sql_error, a retry that succeeds, final_answer, each in its own         *)
(* response, and the run has returned after three model requests.          *)
C7_Witness ==
    /\ pc = "idle"
    /\ outcome.kind = "returned"
    /\ requests = 3
    /\ Len(RunTurns) = 6
    /\ RunTurns[2].content = SqlErrorContent
    /\ RunTurns[4].content = "{\"rows\":[{\"id\":1}]}"
    /\ ToolCallOf(RunTurns[5]).function.name = FINAL_ANSWER_TOOL_NAME

(* A response all of whose choices carry text and no tool invocation. *)
TextOnly(choices) ==
    /\ choices # << >>
    /\ \A i \in 1..Len(choices) :
          Truthy(choices[i].message.content) /\ ~choices[i].message.has_tool_calls

---------------------------------------------------------------------------
(* The claims on failures, under Spec. *)

(* C11: an exception raised by a tool callback is caught by the executor   *)
(* and turned into a Structured Error appended as the ToolResult turn of   *)
(* the call; it never leaves handle_tools or generate_from_messages: every *)
(* step out of the awaited callback appends the ToolResult turn of the     *)
(* call and goes on with the batch, the run not ended.  Stated as the      *)
(* claim puts it; run re-raises and nothing catches.                       *)
C11_CallbackExceptionsCaught ==
    [][ pc = "callback"
        => /\ outcome' = outcome
           /\ pc' = "tools"
           /\ Len(history') = Len(history) + 1
           /\ IsToolResultTurn(history'[Len(history')])
           /\ history'[Len(history')].tool_call_id = cur.id ]_vars


(* C12: a failure of the model request is not retried and not swallowed:   *)
(* the step that ends the wait for a response without a response ends the  *)
(* run with the exception, history and the count of requests as they were, *)
(* and a run ended by an exception takes no further step, so it makes no   *)
(* further model request: the next step is the start of another run.       *)
C12_RequestFailurePropagates ==
    /\ [][ (pc = "awaiting" /\ pc' # "choices")
           => /\ pc' = "idle"
              /\ outcome' = Raised("APIError")
              /\ history' = history
              /\ requests' = requests ]_vars
    /\ [][ outcome.kind = "raised" => (runs' = runs + 1 /\ requests' = 0) ]_vars

(* The second request of a run failed: the run is over with the exception  *)
(* and nothing was appended after the turns that request carried.          *)
C12_Witness ==
    /\ pc = "idle"
    /\ outcome = Raised("APIError")
    /\ requests = 2
    /\ request.messages = history


(* C13: the reporter never influences control flow: with a reporter        *)
(* installed, whatever it does when called, every step of the agent is a   *)
(* step of the loop as it runs without one, in which the reporter is at    *)
(* most handed an event, and no run ends with an exception of the          *)
(* reporter.                                                               *)
(* Stated as the claim puts it; an exception of the reporter ends the run. *)
C13_ReporterNeverInfluences ==
    /\ [][ReporterReturns]_vars
    /\ [](outcome.kind = "raised"
            => outcome.value \in {"APIError", "Exception", "AssertionError"})


(* C14: once final_answer was processed in a batch, every later invocation *)
(* of the batch still gets its ToolCall turn and its correlated ToolResult *)
(* turn, and no model request follows in that run.  Stated as the claim    *)
(* puts it; an invocation after final_answer whose callback raises is left *)
(* without its ToolResult turn.                                            *)
C14_BatchWithFinalAnswerCompletes ==
    /\ [][ (is_final_answer /\ pc = "tools" /\ AppendsToolCall)
           => \/ /\ pc' = "callback"
                 /\ Len(history') = Len(history) + 1
              \/ /\ pc' = "tools"
                 /\ Len(history') = Len(history) + 2
                 /\ IsToolResultTurn(history'[Len(history')])
                 /\ history'[Len(history')].tool_call_id =
                        ToolCallOf(history'[Len(history) + 1]).id ]_vars
    /\ [][ (is_final_answer /\ pc = "callback")
           => /\ pc' = "tools"
              /\ outcome' = outcome
              /\ Len(history') = Len(history) + 1
              /\ IsToolResultTurn(history'[Len(history')])
              /\ history'[Len(history')].tool_call_id = cur.id ]_vars
    /\ [](is_final_answer => pc \notin {"loop", "awaiting"})


---------------------------------------------------------------------------
(* The claims on the terminal flag and on history, under Spec. *)

(* The step appends the ToolResult turn of an invocation of final_answer:  *)
(* the invocation has been processed.                                      *)
ProcessesFinalAnswer ==
    \E j \in (Len(history) + 1)..Len(history') :
        /\ IsToolResultTurn(history'[j])
        /\ \E i \in 1..(j - 1) :
              /\ IsToolCallTurn(history'[i])
              /\ ToolCallOf(history'[i]).id = history'[j].tool_call_id
              /\ ToolCallOf(history'[i]).function.name = FINAL_ANSWER_TOOL_NAME

(* C15: within a run is_final_answer is false at the start and at every    *)
(* model request; a step of the run leaves it true exactly if it was true  *)
(* or the step processed an invocation of final_answer, so it goes from    *)
(* false to true at most once and never back; and once it is true at the   *)
(* end of a response the run ends there, iterations remaining or not.      *)
C15_TerminalMarker ==
    /\ [](pc \in {"loop", "awaiting"} => ~is_final_answer)
    /\ [][ runs' = runs + 1 => ~is_final_answer' ]_vars
    /\ [][ runs' = runs
           => is_final_answer' = (is_final_answer \/ ProcessesFinalAnswer) ]_vars
    /\ []((pc = "choices" /\ is_final_answer)
            => /\ ENABLED ReturnFinalAnswer
               /\ ~ENABLED NextIteration
               /\ ~ENABLED ModelRequest)

(* A run ended by final_answer in its second iteration, eight remaining,   *)
(* after a first iteration that ran a tool.                                *)
C15_Witness ==
    /\ pc = "idle"
    /\ outcome.kind = "returned"
    /\ is_final_answer
    /\ it = 1
    /\ requests = 2
    /\ Len(RunTurns) = 4
    /\ IsToolCallTurn(RunTurns[1])
    /\ ToolCallOf(RunTurns[1]).function.name = "query_postgres"
    /\ IsToolCallTurn(RunTurns[3])
    /\ ToolCallOf(RunTurns[3]).function.name = FINAL_ANSWER_TOOL_NAME


(* C16: history is append-only across the runs of one agent, however they  *)
(* end: every step leaves the turns there were in place and unchanged and  *)
(* at most adds turns after them, so every state of history is a prefix of *)
(* every later one; and its first turn is always the System turn of the    *)
(* constructor, the only System turn.                                      *)
C16_AppendOnly ==
    /\ [][ /\ Len(history') >= Len(history)
           /\ SubSeq(history', 1, Len(history)) = history ]_vars
    /\ [](/\ history[1] = system_message(SCHEMA_MESSAGE)
          /\ \A i \in 2..Len(history) : history[i].role # "system")

(* A second run has ended by final_answer on the history of a first run    *)
(* that an exception ended: both user turns and the unanswered ToolCall    *)
(* turn of the first run are in place.                                     *)
C16_Witness ==
    /\ pc = "idle"
    /\ runs = 2
    /\ outcome.kind = "returned"
    /\ is_final_answer
    /\ ~Correlated(history)
    /\ history[2].role = "user"
    /\ IsToolCallTurn(history[3])
    /\ history[4].role = "user"


(* The turns appended since the latest model request was sent. *)
IterationTurns == SubSeq(history, Len(request.messages) + 1, Len(history))

(* C17: for a choice that carries both text and tool invocations, the      *)
(* Assistant turn is appended and the invocations of the choice are        *)
(* processed too: once the loop is past the choice, its invocations have   *)
(* been taken, each has its ToolCall turn and its ToolResult turn among    *)
(* the turns of the iteration.  Stated as the claim puts it; the loop      *)
(* never looks at the tool invocations of a choice that has text.          *)
C17_TextAndToolCalls ==
    pc = "choices" =>
        \A i \in 1..Len(response) :
            LET msg == response[i].message
            IN  (Truthy(msg.content) /\ msg.has_tool_calls)
                => /\ \E k \in 1..Len(IterationTurns) :
                         IterationTurns[k] = assistant_message(msg.content)
                   /\ msg.tool_calls # << >>
                   /\ \A c \in 1..Len(msg.tool_calls) :
                         \E k \in 1..Len(IterationTurns) :
                            /\ IsToolCallTurn(IterationTurns[k])
                            /\ ToolCallOf(IterationTurns[k]).id = msg.tool_calls[c].id
                            /\ ResultsAfter(IterationTurns, k) # {}


(* Every ToolCall turn of h is directly followed by its ToolResult turn,   *)
(* and every ToolResult turn directly follows its ToolCall turn.           *)
Paired(h) ==
    \A i \in 1..Len(h) :
        /\ IsToolCallTurn(h[i])
              => /\ i < Len(h)
                 /\ IsToolResultTurn(h[i + 1])
                 /\ h[i + 1].tool_call_id = ToolCallOf(h[i]).id
        /\ IsToolResultTurn(h[i])
              => /\ i > 1
                 /\ IsToolCallTurn(h[i - 1])

(* The call ids of the ToolCall turns of h, in the order of h. *)
ToolCallIds(h) ==
    LET turns == SelectSeq(h, IsToolCallTurn)
    IN  [k \in 1..Len(turns) |-> ToolCallOf(turns[k]).id]

(* The call ids of the invocations of a response, choice after choice, in  *)
(* the order received.                                                     *)
RECURSIVE ResponseCallIds(_)
ResponseCallIds(choices) ==
    IF choices = << >> THEN << >>
    ELSE [k \in 1..Len(Head(choices).message.tool_calls) |->
              Head(choices).message.tool_calls[k].id]
         \o ResponseCallIds(Tail(choices))

(* C18: the invocations of a response are executed one after the other in  *)
(* the order received: the ToolCall turns of the iteration are those of    *)
(* the invocations in that order, each directly followed by its ToolResult *)
(* turn; a callback runs only when every earlier invocation has its        *)
(* ToolResult turn; and a model request is issued only when every          *)
(* invocation of every batch before it has its ToolResult turn.  Stated as *)
(* the claim puts it; the batch of a choice that has text is not executed  *)
(* at all, and a batch cut by an exception leaves its last ToolCall turn   *)
(* without ToolResult turn before the next request.                        *)
C18_SequentialInOrder ==
    /\ pc \in {"awaiting", "choices", "tools"} => Paired(history)
    /\ pc = "callback" =>
            /\ Paired(SubSeq(history, 1, Len(history) - 1))
            /\ IsToolCallTurn(history[Len(history)])
            /\ ToolCallOf(history[Len(history)]).id = cur.id
    /\ pc \in {"choices", "tools", "callback"} =>
            ToolCallIds(IterationTurns) = ResponseCallIds(response)
    /\ pc = "choices" =>
            \A i \in 1..Len(response) :
                response[i].message.has_tool_calls
                    => response[i].message.tool_calls # << >>


---------------------------------------------------------------------------
(* The claim on what a model request carries, under SpecReporter. *)

(* C19: every model request carries as messages the whole of history in    *)
(* its order, the System turn first and the latest turn last, the          *)
(* temperature and max_tokens the caller gave, unchanged, and tool_choice  *)
(* auto.                                                                   *)
C19_RequestCarriesHistory ==
    pc = "awaiting" =>
        /\ request.messages = history
        /\ request.messages[1] = system_message(SCHEMA_MESSAGE)
        /\ request.kwargs \in CallerKwargs
        /\ request.temperature = request.kwargs.temperature
        /\ request.max_tokens = request.kwargs.max_tokens
        /\ request.tool_choice = "auto"

(* The second request of a run called with temperature 0.7 and max_tokens  *)
(* 256: it carries the System turn, the user turn, and the ToolCall and    *)
(* ToolResult turns of the first iteration.                                *)
C19_Witness ==
    /\ pc = "awaiting"
    /\ requests = 2
    /\ request.temperature = "0.7"
    /\ request.max_tokens = 256
    /\ Len(request.messages) = 4
    /\ request.messages[2] = user_message(QUESTION)
    /\ IsToolCallTurn(request.messages[3])
    /\ IsToolResultTurn(request.messages[4])


---------------------------------------------------------------------------
(* The claim on a first response of text, under Spec. *)

(* The loop over the choices of the first response of the run ends, and    *)
(* every choice of that response carried text and no tool invocation.      *)
FirstResponseOfTextEnds ==
    /\ pc = "choices"
    /\ requests = 1
    /\ TextOnly(response)
    /\ pc' \in {"loop", "idle"}

---------------------------------------------------------------------------
(* The claims on the callbacks, under SpecArgs. *)

(* The ToolCall turns of the latest run whose invocation passed validation *)
(* of a registered tool.                                                   *)
PassedValidation(turn) == IsToolCallTurn(turn) /\ Branch(ToolCallOf(turn)) = "run"

(* C21: the executor never retries: the callbacks called in a run are, one *)
(* for one and in order, the invocations of the run that passed            *)
(* validation, each called once with the callback of its tool, run in the  *)
(* executor or awaited as the tool says, whatever it handed back; so a     *)
(* callback runs again only for another invocation.                        *)
C21_NoRetry ==
    outcome.kind # "none" =>
        LET passed == SelectSeq(RunTurns, PassedValidation)
        IN  /\ Len(calls) = Len(passed)
            /\ \A k \in 1..Len(calls) :
                  LET tool == TOOLS_get(ToolCallOf(passed[k]).function.name)
                  IN  /\ calls[k].tool_call_id = ToolCallOf(passed[k]).id
                      /\ calls[k].callback = tool.callback
                      /\ calls[k].is_coroutine = tool.is_coroutine

(* query_weaviate, which is awaited in place, handed back its              *)
(* connection_failure payload in the first iteration; the run went on to   *)
(* the cap and the callback was not called again.                          *)
C21_Witness ==
    /\ pc = "idle"
    /\ outcome.kind = "returned"
    /\ requests = MAX_ITERATIONS
    /\ Len(calls) = 1
    /\ calls[1].callback = "query_weaviate"
    /\ calls[1].is_coroutine
    /\ IsToolResultTurn(RunTurns[2])
    /\ RunTurns[2].content =
         "{\"results\":[],\"error\":{\"type\":\"error\",\"reason\":\"connection_failure\",\"message\":\"Failed to connect to Weaviate.\",\"details\":\"refused\"}}"

---------------------------------------------------------------------------
(* The claims on the query callbacks, under SpecTools. *)

PostgresCallRan ==
    /\ frame # NoFrame
    /\ frame.fn = "query_postgres"
    /\ Strip(frame.sql) # ""
    /\ frame.db.engine = "ok"

(* C22: a row-returning statement with R rows and limit L yields the first *)
(* min(R, C) rows in result order, C = max(1, min(L, 200)), and truncated  *)
(* is set exactly when R > C; a statement that returns no rows yields      *)
(* rows = [] and the rowcount of the statement.                            *)
C22_RowsCapped ==
    (PostgresCallRan /\ frame.out.kind = "returned") =>
        LET C == IF frame.limit < 1 THEN 1
                 ELSE IF frame.limit > 200 THEN 200 ELSE frame.limit
            value == frame.out.value
        IN  /\ frame.db.execute = "rows" =>
                LET R == Len(frame.db.rows)
                    kept == IF R < C THEN R ELSE C
                IN  /\ Len(value.rows) = kept
                    /\ \A i \in 1..kept : value.rows[i] = frame.db.rows[i]
                    /\ value.truncated = (R > C)
                    /\ value.error = NoError
            /\ frame.db.execute = "no_rows" =>
                /\ value.rows = << >>
                /\ value.rowcount = frame.db.rowcount
                /\ value.truncated = FALSE

C22_Witness ==
    /\ PostgresCallRan
    /\ frame.db.execute = "rows"
    /\ Len(frame.db.rows) = MaxRows
    /\ frame.limit = MaxLimit
    /\ frame.out.kind = "returned"
    /\ Len(frame.out.value.rows) = 200
    /\ frame.out.value.rows[200] = 200
    /\ frame.out.value.truncated

Made(ops, operation) == \E i \in 1..Len(ops) : ops[i] = operation

Times(ops, operation) == Cardinality({ i \in 1..Len(ops) : ops[i] = operation })

(* C23: every path through query_postgres that created an engine ends by   *)
(* disposing it, once, as the last thing the call does to the database;    *)
(* the empty-SQL and engine-creation-failure paths never hold an engine.   *)
C23_EngineDisposed ==
    frame.fn = "query_postgres" =>
        LET ops == frame.out.ops
        IN  /\ Made(ops, "_postgres_engine") <=> PostgresCallRan
            /\ Made(ops, "_postgres_engine") =>
                  /\ ops[Len(ops)] = "engine.dispose"
                  /\ Times(ops, "engine.dispose") = 1
            /\ ~Made(ops, "_postgres_engine") =>
                  /\ ~Made(ops, "engine.begin")
                  /\ ~Made(ops, "engine.dispose")
                  /\ frame.out.kind = "returned"
                  /\ frame.out.value.error.reason
                        \in {"invalid_sql", "engine_initialization_failed"}

C23_Witness ==
    /\ PostgresCallRan
    /\ frame.db.execute = "SQLAlchemyError"
    /\ frame.out.kind = "returned"
    /\ frame.out.value.error.reason = "sql_error"
    /\ frame.out.ops = << "_postgres_engine", "engine.begin", "connection.execute",
                          "engine.dispose" >>

(* C24: every path through query_weaviate on which connect() succeeded     *)
(* ends by close(), once, as the last thing the call does to the store;    *)
(* the invalid_query, embedding_failure and connection_failure paths       *)
(* return without a connection having been opened.                         *)
C24_ClientClosed ==
    frame.fn = "query_weaviate" =>
        LET ops == frame.out.ops
        IN  /\ Made(ops, "client.connect") =>
                  /\ ops[Len(ops)] = "client.close"
                  /\ Times(ops, "client.close") = 1
            /\ ~Made(ops, "client.connect") => ~Made(ops, "near_vector")
            /\ ( /\ frame.out.kind = "returned"
                 /\ frame.out.value.error # NoError
                 /\ frame.out.value.error.reason
                       \in {"invalid_query", "embedding_failure", "connection_failure"} )
               => ~Made(ops, "client.connect")
            /\ ( /\ frame.out.kind = "returned"
                 /\ \/ frame.out.value.error = NoError
                    \/ frame.out.value.error.reason \in {"weaviate_error", "unexpected_error"} )
               => Made(ops, "client.connect")

C24_Witness ==
    /\ frame.fn = "query_weaviate"
    /\ frame.store.client = "ok"
    /\ frame.store.embed = "ok"
    /\ frame.store.connect = "ok"
    /\ frame.store.search = "WeaviateBaseError"
    /\ frame.out.kind = "returned"
    /\ frame.out.value.error.reason = "weaviate_error"
    /\ frame.out.ops = << "_weaviate_client", "embed_contents", "client.connect",
                          "near_vector", "client.close" >>

(* The callback is being called: cur is the invocation, the last entry of  *)
(* calls is what the callback receives.                                    *)
SuppliedArguments == ParseArguments(cur.function.arguments).d

DeclaredFields == TOOLS_get(cur.function.name).args_model

Received == calls[Len(calls)].kwargs

DefaultsPopulated ==
    \A i \in 1..Len(DeclaredFields) :
        LET f == DeclaredFields[i]
        IN  (f.name \notin DOMAIN SuppliedArguments /\ f.default # JNull) =>
                /\ f.name \in DOMAIN Received
                /\ Received[f.name] = f.default

(* C25 as stated: the callback receives every omitted optional argument    *)
(* with its declared default, and every supplied argument unchanged.       *)
C25_SuppliedUnchanged ==
    pc = "callback" =>
        /\ DefaultsPopulated
        /\ \A n \in DOMAIN SuppliedArguments :
              /\ n \in DOMAIN Received
              /\ Received[n] = SuppliedArguments[n]

(* C25: the callback receives exactly the declared fields that are not     *)
(* None: an omitted one with its declared default, a supplied one with the *)
(* value supplied when that has the declared type and with the number it   *)
(* spells when a text is supplied for an int; an argument the model does   *)
(* not declare is not passed on.                                           *)
C25_DefaultsAndDeclared ==
    pc = "callback" =>
        /\ DefaultsPopulated
        /\ DOMAIN Received \subseteq
              { DeclaredFields[i].name : i \in 1..Len(DeclaredFields) }
        /\ \A i \in 1..Len(DeclaredFields) :
              LET f == DeclaredFields[i]
              IN  f.name \in DOMAIN SuppliedArguments =>
                    LET v == SuppliedArguments[f.name]
                    IN  /\ f.name \in DOMAIN Received
                        /\ IF f.type = "int" /\ v.t = "str"
                           THEN /\ Received[f.name].t = "int"
                                /\ ToString(Received[f.name].n) = v.s
                           ELSE Received[f.name] = v

C25_Witness ==
    /\ pc = "callback"
    /\ calls[Len(calls)].callback = "query_postgres"
    /\ cur.function.arguments = RAW_SQL_EXTRA
    /\ calls[Len(calls)].kwargs = [sql |-> JStr("SELECT 1"), limit |-> JInt(50)]

(* A final_answer invocation whose arguments do not meet the final-answer  *)
(* contract: answer is missing, is not a string, or is the empty string.   *)
BadFinalAnswer(turn) ==
    /\ IsToolCallTurn(turn)
    /\ ToolCallOf(turn).function.name = FINAL_ANSWER_TOOL_NAME
    /\ LET arguments == ParseArguments(ToolCallOf(turn).function.arguments)
       IN  /\ arguments.t = "dict"
           /\ \/ "answer" \notin DOMAIN arguments.d
              \/ arguments.d["answer"].t # "str"
              \/ arguments.d["answer"].s = ""

(* C26 as stated: a final_answer invocation whose answer is missing, not a *)
(* string or empty gets an invalid_tool_arguments result, and the run is   *)
(* not ended by it with a final answer payload.                            *)
C26_FinalAnswerValidated ==
    \A i \in 1..Len(history) :
        BadFinalAnswer(history[i]) =>
            /\ \A j \in ResultsAfter(history, i) :
                  IsErrorResult(history[j], "invalid_tool_arguments")
            /\ (ResultsAfter(history, i) # {}) => ~is_final_answer

---------------------------------------------------------------------------
(* The claim on the events, under SpecReporter. *)

EventsOf(kind) == { i \in 1..Len(events) : events[i].event = kind }

RunReported == reporter # None /\ pc = "idle" /\ outcome.kind = "returned"

RequestsReported == Cardinality(EventsOf("model_request")) = requests

ResponsesReported == Cardinality(EventsOf("model_response")) = requests

InvocationsReported ==
    \A t \in 1..Len(RunTurns) :
        IsToolCallTurn(RunTurns[t]) =>
            \E i \in EventsOf("tool_call"), j \in EventsOf("tool_result") :
                /\ i < j
                /\ events[i].tool_call_id = ToolCallOf(RunTurns[t]).id
                /\ events[j].tool_call_id = ToolCallOf(RunTurns[t]).id

TerminalReported ==
    /\ events # << >>
    /\ events[Len(events)].event
          \notin {"user_message", "model_request", "model_response", "reasoning",
                  "tool_call", "tool_result"}

(* C27 as stated: of a run that returned, the reporter has seen one        *)
(* MODEL_REQUEST per model request, one response event per response        *)
(* received, a TOOL_CALL and then a TOOL_RESULT with the tool_call_id of   *)
(* each invocation, and last of all a terminal-state event, whether the    *)
(* run ended by final answer or by the iteration cap.                      *)
C27_LifecycleReported ==
    RunReported =>
        /\ RequestsReported
        /\ ResponsesReported
        /\ InvocationsReported
        /\ TerminalReported

---------------------------------------------------------------------------
(* The claim on two agents, under SpecPeers. *)

(* What an agent holds is its own: the user turns of its history are its   *)
(* own question, the ToolCall turns are those of its own records, the      *)
(* terminal flag is set only if its history holds a final_answer           *)
(* invocation, and the payload is the content of one of its turns.         *)
OwnState(name, a) ==
    /\ \A i \in 1..Len(a.history) :
          a.history[i].role = "user" => a.history[i].content = QuestionOf(name)
    /\ Cardinality({ i \in 1..Len(a.history) : a.history[i].role = "user" }) =
          (IF a.outcome.kind = "none" THEN 0 ELSE 1)
    /\ SelectSeq(a.history, IsToolCallTurn) =
          [k \in 1..Len(a.tool_call_records) |->
              ToolCall_as_message_param(a.tool_call_records[k])]
    /\ a.is_final_answer =>
          \E i \in 1..Len(a.history) :
              /\ IsToolCallTurn(a.history[i])
              /\ ToolCallOf(a.history[i]).function.name = FINAL_ANSWER_TOOL_NAME
    /\ a.final_answer_payload # None =>
          \E i \in 1..Len(a.history) : GetContent(a.history[i]) = a.final_answer_payload

(* A step of the running agent leaves the suspended one as it was; a       *)
(* switch hands each agent back what it held.                              *)
PeerUntouched ==
    \/ peer' = peer
    \/ peer = NoPeer /\ Attributes' = Attributes
    \/ /\ peer # NoPeer
       /\ peer' = Suspended(Running, Attributes)
       /\ Suspended(peer.name, Attributes') = peer

(* C28: under every interleaving of the suspension points of two agents,   *)
(* no step of one changes the history, tool_call_records, terminal flag or *)
(* final answer payload of the other, and each agent holds only its own.   *)
C28_AgentsIsolated ==
    /\ [](OwnState(Running, Attributes) /\ (peer # NoPeer => OwnState(peer.name, peer)))
    /\ [][PeerUntouched]_vars

C28_Witness ==
    /\ peer # NoPeer
    /\ peer.pc = "callback"
    /\ Len(peer.tool_call_records) = 1
    /\ pc = "idle"
    /\ outcome.kind = "returned"
    /\ is_final_answer
    /\ Len(tool_call_records) = 1
    /\ tool_call_records[1].id # peer.tool_call_records[1].id

---------------------------------------------------------------------------
(* The claim on the command line, under SpecTools. *)

ErrorLines(lines) ==
    Cardinality({ i \in 1..Len(lines) : HasPrefix(lines[i], "[ERROR] ") })

(* C29 as stated: in a CLI session every prompt whose model call raises    *)
(* puts one [ERROR] line on standard error, the process does not die of    *)
(* it, and every prompt of the session is taken.                           *)
C29_ErrorPrintedLoopContinues ==
    frame.fn = "cli" =>
        /\ frame.out.exit = None
        /\ frame.out.prompts = Len(frame.session)
        /\ ErrorLines(frame.out.stderr) =
              Cardinality({ i \in 1..Len(frame.session) : frame.session[i] = "raises" })

---------------------------------------------------------------------------
(* The claim on the value returned, under Spec. *)

(* C30 as stated: a run that ends on the final-answer path returns the     *)
(* content of the ToolResult turn that carries the tool_call_id of a       *)
(* final_answer invocation of that run, whatever else the response held.   *)
C30_ReturnsCorrelatedResult ==
    (pc = "idle" /\ outcome.kind = "returned" /\ is_final_answer) =>
        \E i \in FinalAnswerTurns :
            \E j \in ResultsAfter(history, i) : outcome.value = history[j].content

---------------------------------------------------------------------------
(* The claims on how a run ends and what it leaves behind. *)

IsStructuredError(turn) ==
    \/ IsErrorResult(turn, "unknown_tool")
    \/ IsErrorResult(turn, "invalid_arguments")
    \/ IsErrorResult(turn, "invalid_tool_arguments")

(* C31 as stated: a run that ends through the final-answer path holds a    *)
(* final_answer invocation that was found in the registry, passed          *)
(* validation and had its callback called, and whose ToolResult is not a   *)
(* Structured Error.                                                       *)
C31_EndsOnExecutedFinalAnswer ==
    (pc = "idle" /\ outcome.kind = "returned" /\ is_final_answer) =>
        \E i \in FinalAnswerTurns :
            /\ ToolCallOf(history[i]).function.name \in TOOLS
            /\ Branch(ToolCallOf(history[i])) = "run"
            /\ \E k \in 1..Len(calls) :
                  /\ calls[k].tool_call_id = ToolCallOf(history[i]).id
                  /\ calls[k].callback = "final_answer"
            /\ \A j \in ResultsAfter(history, i) : ~IsStructuredError(history[j])


(* C32 as stated: when an exception has ended a run, history still pairs   *)
(* every ToolCall turn with one ToolResult turn, and so do the messages of *)
(* the first model request of the next run on the same agent.              *)
C32_CorrelatedAfterAbort ==
    /\ (pc = "idle" /\ outcome.kind = "raised") => Correlated(history)
    /\ (pc = "awaiting" /\ runs > 1 /\ requests = 1) => Correlated(request.messages)


(* C33 as stated: the tool specification of an agent holds the             *)
(* final_answer entry exactly once, whatever tools list the caller passed. *)
C33_FinalAnswerOnce ==
    Cardinality({ i \in 1..Len(tool_spec) :
                    tool_spec[i].name = FINAL_ANSWER_TOOL_NAME }) = 1


(* C34: whenever the choices of a response have been processed and the     *)
(* terminal flag is set, the last turn of history is a ToolResult or an     *)
(* Assistant turn whose content is a string, so the payload taken from it   *)
(* is never None and the assertion at line 124 does not fail.               *)
C34_PayloadNeverNone ==
    /\ (pc = "choices" /\ is_final_answer) =>
          /\ history[Len(history)].role \in {"tool", "assistant"}
          /\ "content" \in DOMAIN history[Len(history)]
          /\ GetContent(history[Len(history)]) # None
    /\ (pc = "idle" /\ is_final_answer /\ outcome.kind = "returned") =>
          final_answer_payload # None

C34_Witness ==
    /\ pc = "idle"
    /\ is_final_answer
    /\ outcome.kind = "returned"
    /\ Len(RunTurns) = 4
    /\ IsToolCallTurn(RunTurns[1])
    /\ ToolCallOf(RunTurns[1]).function.name = FINAL_ANSWER_TOOL_NAME
    /\ IsToolCallTurn(RunTurns[3])
    /\ ToolCallOf(RunTurns[3]).function.name = "query_postgres"
    /\ final_answer_payload = RunTurns[4].content


EndedByFinalAnswerBefore ==
    \E i \in 1..RunStart(history) :
        /\ IsToolCallTurn(history[i])
        /\ ToolCallOf(history[i]).function.name = FINAL_ANSWER_TOOL_NAME

(* C35: every run, whatever the runs before it did, issues its first model *)
(* request with the terminal flag false, the payload None and no iteration *)
(* used; it returns with the flag set only if a final_answer invocation    *)
(* was made in this run; and when it ends by the cap it has issued         *)
(* MAX_ITERATIONS requests of its own.                                     *)
C35_FreshRun ==
    /\ (pc = "awaiting" /\ requests = 1) =>
          /\ ~is_final_answer
          /\ final_answer_payload = None
          /\ it = 0
    /\ (pc = "idle" /\ outcome.kind = "returned" /\ is_final_answer) =>
          FinalAnswerTurns # {}
    /\ (pc = "idle" /\ outcome.kind = "returned" /\ ~is_final_answer) =>
          /\ requests = MAX_ITERATIONS
          /\ it = MAX_ITERATIONS

C35_Witness ==
    /\ runs = 2
    /\ pc = "idle"
    /\ outcome.kind = "returned"
    /\ EndedByFinalAnswerBefore
    /\ ~is_final_answer
    /\ final_answer_payload = None
    /\ FinalAnswerTurns = {}
    /\ requests = MAX_ITERATIONS


(* C36: in every state the records are as many as the ToolCall turns of    *)
(* history, the i-th record has the id and the name of the i-th ToolCall   *)
(* turn, and a step only ever appends to the records.                      *)
C36_RecordsMirrorToolCalls ==
    /\ [](LET turns == SelectSeq(history, IsToolCallTurn)
          IN  /\ Len(tool_call_records) = Len(turns)
              /\ \A i \in 1..Len(turns) :
                    /\ tool_call_records[i].id = ToolCallOf(turns[i]).id
                    /\ tool_call_records[i].name = ToolCallOf(turns[i]).function.name)
    /\ [][ /\ Len(tool_call_records') >= Len(tool_call_records)
           /\ SubSeq(tool_call_records', 1, Len(tool_call_records)) = tool_call_records
         ]_vars

C36_Witness ==
    /\ Len(tool_call_records) = 2
    /\ tool_call_records[1].id = "call_1"
    /\ tool_call_records[1].name = "lookup_price"
    /\ tool_call_records[2].id = "call_2"
    /\ tool_call_records[2].name = "query_postgres"
    /\ pc = "callback"


FailureTurns ==
    { t \in 1..Len(RunTurns) :
        RunTurns[t] = assistant_message(as_dict(FailureError).message) }

(* C37: a run that returned by the iteration cap has added one Assistant   *)
(* turn with the failure message, as the last turn of history, and leaves  *)
(* the terminal flag false and the payload None; a run that returned by    *)
(* final answer leaves the flag true and the payload equal to the value    *)
(* it returned, and adds no failure turn.                                  *)
C37_StateOnReturn ==
    /\ (pc = "idle" /\ outcome.kind = "returned" /\ outcome.value = MaxIterationsReachedJson) =>
          /\ FailureTurns = { Len(RunTurns) }
          /\ ~is_final_answer
          /\ final_answer_payload = None
    /\ (pc = "idle" /\ outcome.kind = "returned" /\ outcome.value # MaxIterationsReachedJson) =>
          /\ is_final_answer
          /\ final_answer_payload = outcome.value
          /\ FailureTurns = {}

C37_Witness ==
    /\ pc = "idle"
    /\ outcome.kind = "returned"
    /\ outcome.value = MaxIterationsReachedJson
    /\ requests = MAX_ITERATIONS
    /\ Len(RunTurns) = 4
    /\ IsToolCallTurn(RunTurns[1])
    /\ RunTurns[3] = assistant_message(TEXT)
    /\ FailureTurns = { 4 }
    /\ ~is_final_answer


TakesEmptyChoice ==
    /\ pc = "choices"
    /\ Len(response') = Len(response) + 1
    /\ IsEmptyResponse(<< response'[Len(response')] >>)

EndsEmptyIteration ==
    /\ pc = "choices"
    /\ pc' = "loop"
    /\ IsEmptyResponse(response)

=============================================================================
